---- MODULE Spec2Model ----
(***************************************************************************)
(* EduFlow: the course tree save (save_course_with_children), the fetches  *)
(* of the teacher and the student dashboards, lesson completion and the    *)
(* row-level policies of the courses table.                                *)
(*                                                                         *)
(* A table is the set of its rows, a row is a record of its columns.  A    *)
(* nullable value is a sequence of length at most one: NULL is <<>> and a  *)
(* value v is <<v>>.                                                       *)
(***************************************************************************)
EXTENDS Integers, Sequences, FiniteSets, Bags, TLC

VARIABLES courses, modules, lessons, progress, enrollments, rpc,
          editorCourse, teacherCourses, studentCourses,
          completedLessonIds, inflight, nextRowId,
          uploadStatus, uploadProgress, uploadTask, storage, txns,
          app, navigation, drafts, cover

dbvars == <<courses, modules, lessons, progress, enrollments>>
uploadvars == <<uploadStatus, uploadProgress, uploadTask, storage>>
appvars == <<app, navigation, drafts, cover>>
clientvars == <<editorCourse, teacherCourses, studentCourses, uploadvars, txns, appvars>>
playervars == <<completedLessonIds, inflight, nextRowId>>
vars == <<courses, modules, lessons, progress, enrollments, rpc,
          editorCourse, teacherCourses, studentCourses,
          completedLessonIds, inflight, nextRowId, uploadvars, txns, appvars>>

----------------------------------------------------------------------------
(* Bounds and value sets *)

MaxLessons == 1
MaxInflight == 2
MaxRowId == 3
MaxImageUploads == 2
MaxUploads == 3

Users == {"u1", "u2"}
Students == {"s1", "s2"}
Sessions == {"t1", "t2"}
CourseIds == {"c1", "c2"}
ModuleIds == {"m1", "m2"}
LessonIds == {"l1", "l2"}
Titles == {"a", "b"}

NULL == <<>>
Some(v) == <<v>>
Val(o) == o[1]

FileTypeEnum == {"pdf", "video"}

VideoFile == [name |-> "v.mp4", type |-> "video", url |-> "url/v", size |-> 7]
BadFile == [name |-> "x.bin", type |-> "video/mp4", url |-> "url/x", size |-> 5]

Range(s) == {s[i] : i \in DOMAIN s}

DB == [courses |-> courses, modules |-> modules, lessons |-> lessons, progress |-> progress,
       enrollments |-> enrollments]

EmptyDB == [courses |-> {}, modules |-> {}, lessons |-> {}, progress |-> {}, enrollments |-> {}]

----------------------------------------------------------------------------
(* Foreign keys with ON DELETE CASCADE *)

DeleteLessons(db, gone) ==
    [db EXCEPT !.lessons = db.lessons \ gone,
               !.progress = {p \in db.progress : p.lesson_id \notin {l.id : l \in gone}}]

DeleteModules(db, gone) ==
    DeleteLessons([db EXCEPT !.modules = db.modules \ gone],
                  {l \in db.lessons : l.module_id \in {m.id : m \in gone}})

----------------------------------------------------------------------------
(* save_course_with_children, revision 20250101000012.  The statements of   *)
(* the function act on an execution state: db is the tables as the function*)
(* sees them, err is "" until a statement raises (a statement after a raise *)
(* is never executed), writes counts the statements that wrote, gone is the *)
(* ids of the rows deleted and cleared the ids of the lessons whose file    *)
(* columns went from a value to NULL.                                       *)

NoError == ""
PermissionError == "User does not have permission to edit this course"
EnumError == "invalid input value for enum file_type"

Written(st, db) == [st EXCEPT !.db = db, !.writes = st.writes + 1]

Raise(st, msg) == [st EXCEPT !.err = msg]

(* an upsert whose DO UPDATE SET list also assigns teacher_id *)
UpsertCourse_SetOwner(st, course_data, course_id_val, teacher_id_val) ==
    LET old == {c \in st.db.courses : c.id = course_id_val}
        row == [id |-> course_id_val,
                teacher_id |-> teacher_id_val,
                title |-> course_data.title,
                is_published |-> course_data.is_published]
    IN Written(st, [st.db EXCEPT !.courses = (st.db.courses \ old) \cup {row}])

(* INSERT INTO courses ... ON CONFLICT (id) DO UPDATE SET title, ..., is_published *)
UpsertCourse(st, course_data, course_id_val, teacher_id_val) ==
    LET old == {c \in st.db.courses : c.id = course_id_val}
        row == [id |-> course_id_val,
                teacher_id |-> teacher_id_val,
                title |-> course_data.title,
                is_published |-> course_data.is_published]
        new == IF old = {} THEN {row}
               ELSE {[c EXCEPT !.title = row.title,
                               !.is_published = row.is_published] : c \in old}
    IN Written(st, [st.db EXCEPT !.courses = (st.db.courses \ old) \cup new])

(* INSERT INTO modules ... ON CONFLICT (id) DO UPDATE SET title, "order" *)
UpsertModule(st, module_json, module_id_val, course_id_val) ==
    LET old == {m \in st.db.modules : m.id = module_id_val}
        row == [id |-> module_id_val,
                course_id |-> course_id_val,
                title |-> module_json.title,
                order |-> module_json.order]
        new == IF old = {} THEN {row}
               ELSE {[m EXCEPT !.title = row.title, !.order = row.order] : m \in old}
    IN Written(st, [st.db EXCEPT !.modules = (st.db.modules \ old) \cup new])

(* the upsert whose branch without content leaves the file columns of an    *)
(* existing row alone                                                       *)
UpsertLesson_StaleContent(st, lesson_json, module_id_val) ==
    LET old == {l \in st.db.lessons : l.id = lesson_json.id}
        hasContent == lesson_json.content # NULL
        file == Val(lesson_json.content)
        row == [id |-> lesson_json.id,
                module_id |-> module_id_val,
                title |-> lesson_json.title,
                order |-> lesson_json.order,
                file_name |-> IF hasContent THEN Some(file.name) ELSE NULL,
                file_type |-> IF hasContent THEN Some(file.type) ELSE NULL,
                file_url |-> IF hasContent THEN Some(file.url) ELSE NULL,
                file_size |-> IF hasContent THEN Some(file.size) ELSE NULL]
        new == IF old = {} THEN {row}
               ELSE IF hasContent
               THEN {[l EXCEPT !.title = row.title, !.order = row.order,
                               !.file_name = row.file_name, !.file_type = row.file_type,
                               !.file_url = row.file_url, !.file_size = row.file_size] : l \in old}
               ELSE {[l EXCEPT !.title = row.title, !.order = row.order] : l \in old}
        cleared == {l.id : l \in {x \in old : x.file_url # NULL /\ ~hasContent}}
    IN IF hasContent /\ file.type \notin FileTypeEnum
       THEN Raise(st, EnumError)
       ELSE [Written(st, [st.db EXCEPT !.lessons = (st.db.lessons \ old) \cup new]) EXCEPT
                !.cleared = st.cleared \cup cleared]

(* The two branches of the lesson upsert: with content the four file columns *)
(* come from the payload (the type through the cast to the enumeration),     *)
(* without content they are NULL, on insert and on conflict alike.           *)
UpsertLesson(st, lesson_json, module_id_val) ==
    LET old == {l \in st.db.lessons : l.id = lesson_json.id}
        hasContent == lesson_json.content # NULL
        file == Val(lesson_json.content)
        row == [id |-> lesson_json.id,
                module_id |-> module_id_val,
                title |-> lesson_json.title,
                order |-> lesson_json.order,
                file_name |-> IF hasContent THEN Some(file.name) ELSE NULL,
                file_type |-> IF hasContent THEN Some(file.type) ELSE NULL,
                file_url |-> IF hasContent THEN Some(file.url) ELSE NULL,
                file_size |-> IF hasContent THEN Some(file.size) ELSE NULL]
        new == IF old = {} THEN {row}
               ELSE {[l EXCEPT !.title = row.title, !.order = row.order,
                               !.file_name = row.file_name, !.file_type = row.file_type,
                               !.file_url = row.file_url, !.file_size = row.file_size] : l \in old}
        cleared == {l.id : l \in {x \in old : x.file_url # NULL /\ ~hasContent}}
    IN IF hasContent /\ file.type \notin FileTypeEnum
       THEN Raise(st, EnumError)
       ELSE [Written(st, [st.db EXCEPT !.lessons = (st.db.lessons \ old) \cup new]) EXCEPT
                !.cleared = st.cleared \cup cleared]

RECURSIVE LessonLoop(_, _, _, _)
LessonLoop(st, lessonsJson, i, module_id_val) ==
    IF i > Len(lessonsJson) \/ st.err # NoError THEN st
    ELSE LessonLoop(UpsertLesson(st, lessonsJson[i], module_id_val),
                    lessonsJson, i + 1, module_id_val)

(* the deletion that takes an empty list to mean "leave unchanged" *)
DeleteStaleLessons_SkipEmpty(st, module_json, module_id_val) ==
    LET keep == {l.id : l \in Range(module_json.lessons)}
        gone == {l \in st.db.lessons : l.module_id = module_id_val /\ l.id \notin keep}
    IN IF st.err # NoError THEN st
       ELSE IF gone = {} \/ keep = {} THEN st
       ELSE [Written(st, DeleteLessons(st.db, gone)) EXCEPT
                !.gone = st.gone \cup {l.id : l \in gone}]

(* DELETE FROM lessons WHERE module_id = module_id_val AND id NOT IN (payload ids) *)
DeleteStaleLessons(st, module_json, module_id_val) ==
    LET keep == {l.id : l \in Range(module_json.lessons)}
        gone == {l \in st.db.lessons : l.module_id = module_id_val /\ l.id \notin keep}
    IN IF st.err # NoError THEN st
       ELSE IF gone = {} THEN st
       ELSE [Written(st, DeleteLessons(st.db, gone)) EXCEPT
                !.gone = st.gone \cup {l.id : l \in gone}]

RECURSIVE ModuleLoop(_, _, _, _)
ModuleLoop(st, modulesJson, i, course_id_val) ==
    IF i > Len(modulesJson) \/ st.err # NoError THEN st
    ELSE LET module_json == modulesJson[i]
             module_id_val == module_json.id
             s1 == UpsertModule(st, module_json, module_id_val, course_id_val)
             s2 == LessonLoop(s1, module_json.lessons, 1, module_id_val)
             s3 == DeleteStaleLessons(s2, module_json, module_id_val)
         IN ModuleLoop(s3, modulesJson, i + 1, course_id_val)

(* DELETE FROM modules WHERE course_id = course_id_val AND id NOT IN (payload ids) *)
DeleteStaleModules(st, course_data, course_id_val) ==
    LET keep == {m.id : m \in Range(course_data.modules)}
        gone == {m \in st.db.modules : m.course_id = course_id_val /\ m.id \notin keep}
    IN IF st.err # NoError THEN st
       ELSE IF gone = {} THEN st
       ELSE [Written(st, DeleteModules(st.db, gone)) EXCEPT
                !.gone = st.gone \cup {m.id : m \in gone}
                             \cup {l.id : l \in {x \in st.db.lessons :
                                        x.module_id \in {m.id : m \in gone}}}]

(* a call whose writes survive a raise *)
Transaction_NoRollback(db, st) ==
    [ok |-> st.err = NoError,
     err |-> st.err,
     writes |-> st.writes,
     gone |-> st.gone,
     cleared |-> st.cleared,
     db |-> st.db]

(* The statement that calls the function is one transaction: a raise undoes *)
(* every write the function has made.                                       *)
Transaction(db, st) ==
    [ok |-> st.err = NoError,
     err |-> st.err,
     writes |-> st.writes,
     gone |-> st.gone,
     cleared |-> st.cleared,
     db |-> IF st.err = NoError THEN st.db ELSE db]

(* the check without the comparison with auth.uid() *)
NotPermitted_NullOnly(teacher_id_val, uid) ==
    teacher_id_val = NULL

(* IF teacher_id_val IS NULL OR teacher_id_val != auth.uid() THEN RAISE *)
NotPermitted(teacher_id_val, uid) ==
    teacher_id_val = NULL \/ teacher_id_val # Some(uid)

save_course_with_children(db, uid, course_data) ==
    LET course_id_val == course_data.id
        teacher_id_val == course_data.teacher_id
        s0 == [db |-> db, err |-> NoError, writes |-> 0, gone |-> {}, cleared |-> {}]
    IN IF NotPermitted(teacher_id_val, uid)
       THEN Transaction(db, Raise(s0, PermissionError))
       ELSE LET s1 == UpsertCourse(s0, course_data, course_id_val, Val(teacher_id_val))
                s2 == ModuleLoop(s1, course_data.modules, 1, course_id_val)
                s3 == DeleteStaleModules(s2, course_data, course_id_val)
            IN Transaction(db, s3)

----------------------------------------------------------------------------
(* Row-level policies of SETUP_COMPLETO_NUEVO_PROYECTO.sql, section 3 *)

CourseSelectPolicy(uid, c) == c.teacher_id = uid \/ c.is_published = TRUE

CourseInsertPolicy(uid, c) == c.teacher_id = uid

CourseUpdatePolicy(uid, c) == c.teacher_id = uid

CourseDeletePolicy(uid, c) == c.teacher_id = uid

ModuleSelectPolicy(db, uid, m) ==
    \E c \in db.courses : c.id = m.course_id /\ (c.teacher_id = uid \/ c.is_published = TRUE)

LessonSelectPolicy(db, uid, l) ==
    \E m \in db.modules : \E c \in db.courses :
        c.id = m.course_id /\ m.id = l.module_id /\ (c.teacher_id = uid \/ c.is_published = TRUE)

----------------------------------------------------------------------------
(* Media kind tokens: the MIME tokens of the client and the stored enumeration *)

VideoPrefixed == {"video/mp4", "video/webm"}

(* mimeType.startsWith('video/') *)
StartsWithVideo(mimeType) == mimeType \in VideoPrefixed

normalizeFileType(mimeType) ==
    IF mimeType = "application/pdf" THEN Some("pdf")
    ELSE IF StartsWithVideo(mimeType) THEN Some("video")
    ELSE NULL

enumToMimeType(enumValue) ==
    IF enumValue = "pdf" THEN "application/pdf"
    ELSE IF enumValue = "video" THEN "video/mp4"
    ELSE "application/pdf"

(* a || b on a nullable string *)
OrElse(o, d) == IF o = NULL \/ o = Some("") THEN d ELSE Val(o)

(* l.file_url ? {...} : null *)
Truthy(o) == o # NULL /\ o # Some("")

----------------------------------------------------------------------------
(* The nested select of the two dashboards.  A fetched list is the set of    *)
(* its items; the position of an item is given by its order field.          *)

TeacherLesson(l) ==
    [id |-> l.id, title |-> l.title, order |-> l.order,
     content |-> IF Truthy(l.file_url)
                 THEN Some([name |-> Val(l.file_name),
                            type |-> enumToMimeType(OrElse(normalizeFileType(OrElse(l.file_type, "pdf")), "pdf")),
                            url |-> Val(l.file_url),
                            size |-> Val(l.file_size)])
                 ELSE NULL]

StudentLesson(l) ==
    [id |-> l.id, title |-> l.title, order |-> l.order,
     content |-> IF Truthy(l.file_url)
                 THEN Some([name |-> Val(l.file_name),
                            type |-> enumToMimeType(OrElse(l.file_type, "pdf")),
                            url |-> Val(l.file_url),
                            size |-> Val(l.file_size)])
                 ELSE NULL]

(* the rows of the nested select that the policies let the caller see *)
VisibleModules(db, uid, c) ==
    {x \in db.modules : x.course_id = c.id /\ ModuleSelectPolicy(db, uid, x)}

VisibleLessons(db, uid, m) ==
    {x \in db.lessons : x.module_id = m.id /\ LessonSelectPolicy(db, uid, x)}

TeacherCourse(db, uid, c) ==
    [id |-> c.id, title |-> c.title, isPublished |-> c.is_published,
     teacher_id |-> c.teacher_id,
     modules |-> {[id |-> m.id, title |-> m.title, order |-> m.order,
                   lessons |-> {TeacherLesson(l) : l \in VisibleLessons(db, uid, m)}] :
                  m \in VisibleModules(db, uid, c)}]

StudentCourse(db, uid, c) ==
    [id |-> c.id, title |-> c.title, isPublished |-> c.is_published,
     teacher_id |-> c.teacher_id,
     modules |-> {[id |-> m.id, title |-> m.title, order |-> m.order,
                   lessons |-> {StudentLesson(l) : l \in VisibleLessons(db, uid, m)}] :
                  m \in VisibleModules(db, uid, c)}]

(* fetchProfileAndCourses: .eq('teacher_id', profileData.id) *)
TeacherFetch(db, uid) ==
    {TeacherCourse(db, uid, c) :
        c \in {x \in db.courses : CourseSelectPolicy(uid, x) /\ x.teacher_id = uid}}

(* StudentDashboard.fetchData: .eq('is_published', true) *)
StudentFetch(db, uid) ==
    {StudentCourse(db, uid, c) :
        c \in {x \in db.courses : CourseSelectPolicy(uid, x) /\ x.is_published = TRUE}}

----------------------------------------------------------------------------
(* The payloads of the model: course trees with distinct ids, the order of  *)
(* an item being its 0-based position.                                      *)

DistinctSeqs(S, n) ==
    {s \in UNION {[1..k -> S] : k \in 0..n} : \A i, j \in DOMAIN s : i # j => s[i] # s[j]}

Contents == {NULL, Some(VideoFile)}

PayloadLesson(id, title, pos, content) ==
    [id |-> id, title |-> title, order |-> pos - 1, content |-> content]

PayloadModule(id, title, pos, ls, f) ==
    [id |-> id, title |-> title, order |-> pos - 1,
     lessons |-> [j \in DOMAIN ls |-> PayloadLesson(ls[j], title, j, f[ls[j]])]]

WellFormed(b) ==
    /\ \A i \in DOMAIN b.la : i > Len(b.ms) => b.la[i] = <<>>
    /\ \A i, j \in DOMAIN b.la : i # j => Range(b.la[i]) \cap Range(b.la[j]) = {}
    /\ \A l \in LessonIds : (\A i \in DOMAIN b.la : l \notin Range(b.la[i])) => b.f[l] = NULL

(* a body: the title of the revision, the modules, the lessons of each      *)
(* module and the content of each lesson                                    *)
Bodies ==
    {b \in {[title |-> t, ms |-> ms, la |-> la, f |-> f] :
                t \in Titles,
                ms \in DistinctSeqs(ModuleIds, Cardinality(ModuleIds)),
                la \in [1..Cardinality(ModuleIds) -> DistinctSeqs(LessonIds, MaxLessons)],
                f \in [LessonIds -> Contents]} : WellFormed(b)}

BodyLessons(b) == UNION {Range(b.la[i]) : i \in DOMAIN b.la}

(* the bodies of the calls of the two-teacher specification: one revision, *)
(* at most one module and one lesson, a video                               *)
SmallBodies(t) ==
    {b \in Bodies : /\ b.title = t
                    /\ Len(b.ms) <= 1
                    /\ BodyLessons(b) \subseteq {"l1"}
                    /\ ("l1" \in BodyLessons(b) => b.f["l1"] = Some(VideoFile))}

(* bodies whose last lesson carries a token the enumeration does not have *)
BadBodies ==
    {[title |-> "a", ms |-> <<"m1">>, la |-> <<(<<"l1">>), <<>>>>,
      f |-> [l \in LessonIds |-> IF l = "l1" THEN Some(BadFile) ELSE NULL]],
     [title |-> "a", ms |-> <<"m1", "m2">>, la |-> <<(<<"l1">>), <<"l2">>>>,
      f |-> [l \in LessonIds |-> IF l = "l1" THEN Some(VideoFile) ELSE Some(BadFile)]]}

ForgedBodies == {b \in SmallBodies("a") : b.ms # <<"m2">>}

Payload(cid, tid, b) ==
    [id |-> cid, teacher_id |-> tid, title |-> b.title, is_published |-> (b.title = "b"),
     modules |-> [i \in DOMAIN b.ms |-> PayloadModule(b.ms[i], b.title, i, b.la[i], b.f)]]

(* the trees the first teacher saves from the editor for the course c1 *)
EditorTrees == {Payload("c1", Some("u1"), b) : b \in Bodies}

(* the trees of the calls of either teacher, teacher_id being the caller *)
OwnTrees(uid) == {Payload(cid, Some(uid), b) : cid \in CourseIds, b \in SmallBodies("b") \cup BadBodies}

(* the trees of a direct call whose teacher_id is not the caller *)
ForgedTrees(uid) ==
    {Payload(cid, tid, b) : cid \in CourseIds,
                            tid \in {NULL} \cup {Some(u) : u \in Users \ {uid}},
                            b \in ForgedBodies}

----------------------------------------------------------------------------
(* The remote procedure call, as issued by handleSaveCourse or directly *)

NoCourse == <<>>

(* the editor's upload state on mount, and an empty bucket *)
NoUploads ==
    /\ uploadStatus = [l \in LessonIds |-> "idle"]
    /\ uploadProgress = [l \in LessonIds |-> NULL]
    /\ uploadTask = [l \in LessonIds |-> NULL]
    /\ storage = {}
    /\ txns = [t \in Sessions |-> NULL]

(* The App component in the teacher's browser: session and profile hold the *)
(* id of the user, selectedCourse the id and the owner of the course;       *)
(* navigation is the local storage keys app_view and app_selected_course,   *)
(* drafts the ids c whose key course-draft-c exists.                         *)

(* cover is the cover image of the editor's course: imageUrl, the course    *)
(* object and the path each running handleImageUpload holds, and the number *)
(* of uploads started.                                                      *)
NoCover == [imageUrl |-> NULL, pending |-> NULL, uploads |-> 0]

(* the effect that persists view and selectedCourse *)
Persisted(state) ==
    [app_view |-> Some(state.view), app_selected_course |-> state.selectedCourse]

Selected(course) == Some([id |-> course.id, teacher_id |-> course.teacher_id])

(* the first teacher is signed in; an open editor has written its draft *)
SignedInAt(view, selected) ==
    /\ app = [session |-> Some("u1"), profile |-> Some("u1"), loading |-> FALSE,
              view |-> view, selectedCourse |-> selected]
    /\ navigation = Persisted(app)
    /\ drafts = IF view = "EDITOR" /\ selected # NULL THEN {Val(selected).id} ELSE {}
    /\ cover = NoCover

(* the render branch of the App that mounts the CourseEditor *)
EditorShown ==
    /\ ~app.loading
    /\ app.session # NULL /\ app.profile # NULL
    /\ Val(app.profile) \in Users
    /\ app.view = "EDITOR" /\ app.selectedCourse # NULL

(* setSelectedCourse(course); setView('EDITOR'), and the mount of the editor *)
OpenEditor(course) ==
    /\ app' = [app EXCEPT !.view = "EDITOR", !.selectedCourse = Selected(course)]
    /\ navigation' = Persisted(app')
    /\ drafts' = drafts \cup {course.id}
    /\ cover' = NoCover

NoCall == [op |-> "none", caller |-> "", data |-> <<>>, ok |-> TRUE, err |-> NoError,
           writes |-> 0, gone |-> {}, cleared |-> {}]

SaveCourseRpc(uid, course_data) ==
    LET r == save_course_with_children(DB, uid, course_data)
    IN /\ courses' = r.db.courses
       /\ modules' = r.db.modules
       /\ lessons' = r.db.lessons
       /\ progress' = r.db.progress
       /\ enrollments' = r.db.enrollments
       /\ rpc' = [op |-> "save", caller |-> uid, data |-> course_data,
                  ok |-> r.ok, err |-> r.err, writes |-> r.writes,
                  gone |-> r.gone, cleared |-> r.cleared]
       /\ UNCHANGED <<clientvars, playervars>>

(* handleSaveCourse of the first teacher, from the editor of the course c1 *)
SaveFromEditor == \E T \in EditorTrees : SaveCourseRpc("u1", T)

(* a call of either teacher with a payload that names the caller *)
SaveOwn == \E uid \in Users : \E T \in OwnTrees(uid) : SaveCourseRpc(uid, T)

(* a direct call with a payload that names another teacher, or none *)
SaveForged == \E uid \in Users : \E T \in ForgedTrees(uid) : SaveCourseRpc(uid, T)

Init ==
    /\ courses = {} /\ modules = {} /\ lessons = {} /\ progress = {} /\ enrollments = {}
    /\ rpc = NoCall
    /\ editorCourse = NoCourse /\ teacherCourses = {} /\ studentCourses = {}
    /\ NoUploads
    /\ SignedInAt("DASHBOARD", NULL)
    /\ completedLessonIds = [s \in Students |-> <<>>] /\ inflight = EmptyBag /\ nextRowId = 1

(* one teacher authoring one course *)
Next == SaveFromEditor

Spec == Init /\ [][Next]_vars

(* two teachers, two courses, calls that the function rejects or aborts *)
NextRpc == SaveOwn \/ SaveForged

SpecRpc == Init /\ [][NextRpc]_vars

----------------------------------------------------------------------------
(* The teacher's client: the editor holds a Course object whose lists are   *)
(* sequences and whose content type is the MIME token of the uploaded file. *)

Mp4Upload == [name |-> "v.mp4", type |-> "video/mp4", url |-> "url/v", size |-> 7]
PdfUpload == [name |-> "d.pdf", type |-> "application/pdf", url |-> "url/d", size |-> 3]

(* handleFileChange accepts 'video/mp4' and 'application/pdf' only *)
Uploads == {NULL, Some(Mp4Upload), Some(PdfUpload)}

ClientLesson(id, pos, content) ==
    [id |-> id, title |-> "a", order |-> pos - 1, content |-> content]

ClientCourse(ms) ==
    [id |-> "c1", title |-> "a", isPublished |-> TRUE, teacher_id |-> "u1", modules |-> ms]

(* the trees the teacher builds in the editor: one module, one or two lessons *)
ClientTrees ==
    {ClientCourse(<<>>)}
    \cup {ClientCourse(<<[id |-> "m1", title |-> "a", order |-> 0,
                          lessons |-> <<ClientLesson("l1", 1, f)>>]>>) : f \in Uploads}
    \cup {ClientCourse(<<[id |-> "m1", title |-> "a", order |-> 0,
                          lessons |-> <<ClientLesson("l1", 1, f), ClientLesson("l2", 2, g)>>]>>) :
            f \in Uploads, g \in Uploads \ {NULL}}

(* the payload handleSaveCourse builds from the editor's course *)
CoursePayload(updatedCourse) ==
    [id |-> updatedCourse.id,
     teacher_id |-> Some(updatedCourse.teacher_id),
     title |-> updatedCourse.title,
     is_published |-> updatedCourse.isPublished,
     modules |-> [i \in DOMAIN updatedCourse.modules |->
        LET module == updatedCourse.modules[i]
        IN [id |-> module.id, title |-> module.title, order |-> module.order,
            lessons |-> [k \in DOMAIN module.lessons |->
                LET lesson == module.lessons[k]
                IN [id |-> lesson.id, title |-> lesson.title, order |-> lesson.order,
                    content |-> IF lesson.content # NULL
                                THEN Some([name |-> Val(lesson.content).name,
                                           type |-> OrElse(normalizeFileType(Val(lesson.content).type), "pdf"),
                                           url |-> Val(lesson.content).url,
                                           size |-> Val(lesson.content).size])
                                ELSE NULL]]]]]

(* the sequences that list a fetched set by ascending order field *)
SortedSeqs(S) ==
    {q \in [1..Cardinality(S) -> S] :
        /\ \A i, k \in DOMAIN q : i # k => q[i] # q[k]
        /\ \A i, k \in DOMAIN q : i < k => q[i].order <= q[k].order}

LessonSeqsOf(c) == UNION {SortedSeqs(m.lessons) : m \in c.modules}

(* the Course objects a fetched course stands for *)
AsLists(c) ==
    {[c EXCEPT !.modules = [i \in DOMAIN p[1] |-> [p[1][i] EXCEPT !.lessons = p[2][i]]]] :
        p \in {q \in SortedSeqs(c.modules) \X [1..Cardinality(c.modules) -> LessonSeqsOf(c)] :
                \A i \in DOMAIN q[1] : q[2][i] \in SortedSeqs(q[1][i].lessons)}}

(* the teacher edits the course in the editor *)
EditInEditor ==
    /\ \E c \in ClientTrees : editorCourse' = c /\ OpenEditor(c)
    /\ rpc' = [NoCall EXCEPT !.op = "edit", !.caller = "u1"]
    /\ UNCHANGED <<dbvars, teacherCourses, studentCourses, uploadvars, playervars, txns>>

(* handleEditCourse: a course of the dashboard is opened in the editor *)
handleEditCourse ==
    /\ \E c \in teacherCourses : \E x \in AsLists(c) : editorCourse' = x /\ OpenEditor(x)
    /\ rpc' = [NoCall EXCEPT !.op = "open", !.caller = "u1"]
    /\ UNCHANGED <<dbvars, teacherCourses, studentCourses, uploadvars, playervars, txns>>

NetworkError == "Failed to fetch"

(* handleSaveCourse: nothing without a profile and a session; else the call *)
(* (failed is a request that does not reach the function), and after a      *)
(* success fetchProfileAndCourses and setView('DASHBOARD')                  *)
handleSaveCourse(updatedCourse, failed) ==
    IF app.profile = NULL \/ app.session = NULL
    THEN /\ rpc' = [NoCall EXCEPT !.op = "saveSkipped"]
         /\ UNCHANGED <<dbvars, teacherCourses, app, navigation>>
    ELSE LET uid == Val(app.session)
             done == save_course_with_children(DB, uid, CoursePayload(updatedCourse))
             r == IF failed
                  THEN [done EXCEPT !.ok = FALSE, !.err = NetworkError, !.db = DB,
                                    !.writes = 0, !.gone = {}, !.cleared = {}]
                  ELSE done
         IN /\ courses' = r.db.courses
            /\ modules' = r.db.modules
            /\ lessons' = r.db.lessons
            /\ progress' = r.db.progress
            /\ enrollments' = r.db.enrollments
            /\ rpc' = [op |-> "save", caller |-> uid, data |-> CoursePayload(updatedCourse),
                       ok |-> r.ok, err |-> r.err, writes |-> r.writes,
                       gone |-> r.gone, cleared |-> r.cleared]
            /\ teacherCourses' = IF r.ok THEN TeacherFetch(r.db, uid) ELSE teacherCourses
            /\ app' = IF r.ok THEN [app EXCEPT !.view = "DASHBOARD"] ELSE app
            /\ navigation' = Persisted(app')

(* a wrapper that removes the draft in its finally block *)
DraftsAfterSave_Finally(keys, key, thrown) == keys \ {key}

(* localStorage.removeItem(key) after the await of onSave, skipped by a throw *)
DraftsAfterSave(keys, key, thrown) == IF thrown THEN keys ELSE keys \ {key}

(* CourseEditor.handleSaveWrapper: the button "Guardar Cambios" *)
handleSaveWrapper ==
    /\ EditorShown /\ editorCourse # NoCourse
    /\ \E failed \in BOOLEAN :
        /\ handleSaveCourse(editorCourse, failed)
        /\ drafts' = DraftsAfterSave(drafts, editorCourse.id, rpc'.op = "save" /\ ~rpc'.ok)
    /\ UNCHANGED <<editorCourse, studentCourses, uploadvars, playervars, txns, cover>>

(* A call of the function in progress: txns[t] holds the payload and the    *)
(* number k of units the function has executed: 0 after the ownership      *)
(* check, 1 after the course upsert, 1 + j after the j-th pass of the       *)
(* module loop, LastUnit after the delete of the stale modules.             *)

LastUnit(course_data) == Len(course_data.modules) + 2

(* the execution state of the function after k units *)
Working(db, uid, course_data, k) ==
    LET course_id_val == course_data.id
        teacher_id_val == course_data.teacher_id
        s0 == [db |-> db, err |-> NoError, writes |-> 0, gone |-> {}, cleared |-> {}]
        n == IF k - 1 < Len(course_data.modules) THEN k - 1 ELSE Len(course_data.modules)
    IN IF NotPermitted(teacher_id_val, uid) THEN Raise(s0, PermissionError)
       ELSE IF k = 0 THEN s0
       ELSE LET s1 == UpsertCourse(s0, course_data, course_id_val, Val(teacher_id_val))
                s2 == ModuleLoop(s1, SubSeq(course_data.modules, 1, n), 1, course_id_val)
            IN IF k < LastUnit(course_data) THEN s2
               ELSE DeleteStaleModules(s2, course_data, course_id_val)

(* the sessions whose call has written: the course row is locked by it *)
Writers == {t \in Sessions : txns[t] # NULL /\ Val(txns[t]).k >= 1}

(* the tables as the call in progress sees them *)
Uncommitted ==
    IF Writers = {} THEN DB
    ELSE LET t == CHOOSE x \in Sessions : x \in Writers
         IN Working(DB, Val(txns[t]).caller, Val(txns[t]).data, Val(txns[t]).k).db

(* a statement that reads the writes of a transaction in progress *)
Visible_Dirty(committed, uncommitted) == uncommitted

(* a statement of another session reads committed rows only *)
Visible(committed, uncommitted) == committed

(* StudentDashboard.fetchData *)
StudentFetchData ==
    /\ \E sid \in Students :
        /\ studentCourses' = StudentFetch(Visible(DB, Uncommitted), sid)
        /\ rpc' = [NoCall EXCEPT !.op = "studentFetch", !.caller = sid]
    /\ UNCHANGED <<dbvars, editorCourse, teacherCourses, uploadvars, playervars, txns, appvars>>

(* the teacher's editor, the save, the two dashboards *)
NextMedia == EditInEditor \/ handleEditCourse \/ handleSaveWrapper \/ StudentFetchData

SpecMedia == Init /\ [][NextMedia]_vars

----------------------------------------------------------------------------
(* CoursePlayer: lesson completion.  A request is in flight from the call   *)
(* of upsert until its promise resolves; the statement runs on the server   *)
(* in between.                                                              *)

UniqueViolation == "duplicate key value violates unique constraint"
ForeignKeyViolation == "violates foreign key constraint"
RlsViolation == "new row violates row-level security policy"

(* "Students can update their own progress." FOR ALL USING (student_id = auth.uid()) *)
ProgressPolicy(uid, p) == p.student_id = uid

(* an INSERT without the ON CONFLICT clause *)
UpsertProgress_PlainInsert(db, uid, row, rowId) ==
    LET old == {p \in db.progress : p.student_id = row.student_id /\ p.lesson_id = row.lesson_id}
    IN IF ~ProgressPolicy(uid, row)
       THEN [db |-> db, err |-> RlsViolation, inserted |-> FALSE]
       ELSE IF \A l \in db.lessons : l.id # row.lesson_id
       THEN [db |-> db, err |-> ForeignKeyViolation, inserted |-> FALSE]
       ELSE IF old # {}
       THEN [db |-> db, err |-> UniqueViolation, inserted |-> FALSE]
       ELSE [db |-> [db EXCEPT !.progress = db.progress \cup {[id |-> rowId] @@ row}],
             err |-> NoError, inserted |-> TRUE]

(* .from('progress').upsert(row, { onConflict: 'student_id, lesson_id' }) *)
UpsertProgress(db, uid, row, rowId) ==
    LET old == {p \in db.progress : p.student_id = row.student_id /\ p.lesson_id = row.lesson_id}
    IN IF ~ProgressPolicy(uid, row)
       THEN [db |-> db, err |-> RlsViolation, inserted |-> FALSE]
       ELSE IF \A l \in db.lessons : l.id # row.lesson_id
       THEN [db |-> db, err |-> ForeignKeyViolation, inserted |-> FALSE]
       ELSE IF old # {}
       THEN [db |-> [db EXCEPT !.progress = (db.progress \ old) \cup
                        {[p EXCEPT !.is_completed = row.is_completed] : p \in old}],
             err |-> NoError, inserted |-> FALSE]
       ELSE [db |-> [db EXCEPT !.progress = db.progress \cup {[id |-> rowId] @@ row}],
             err |-> NoError, inserted |-> TRUE]

Perms(S) == {s \in [1..Cardinality(S) -> S] : \A i, j \in DOMAIN s : i # j => s[i] # s[j]}

(* handleLessonComplete up to the await: the guard and the request *)
handleLessonComplete ==
    /\ BagCardinality(inflight) < MaxInflight
    /\ \E sid \in Students : \E l \in lessons :
        /\ l.id \notin Range(completedLessonIds[sid])
        /\ inflight' = inflight (+) SetToBag({[student_id |-> sid, lesson_id |-> l.id,
                                                phase |-> "sent", err |-> NoError]})
    /\ UNCHANGED <<dbvars, rpc, clientvars, completedLessonIds, nextRowId>>

(* the statement of a request runs on the server *)
ProgressUpsert ==
    \E q \in BagToSet(inflight) :
        /\ q.phase = "sent"
        /\ LET row == [student_id |-> q.student_id, lesson_id |-> q.lesson_id,
                       is_completed |-> TRUE]
               r == UpsertProgress(DB, q.student_id, row, nextRowId)
           IN /\ progress' = r.db.progress
              /\ nextRowId' = IF r.inserted THEN nextRowId + 1 ELSE nextRowId
              /\ inflight' = (inflight (-) SetToBag({q})) (+)
                              SetToBag({[q EXCEPT !.phase = "done", !.err = r.err]})
        /\ UNCHANGED <<courses, modules, lessons, enrollments, rpc, clientvars, completedLessonIds>>

(* handleLessonComplete after the await: throw on error, else setCompletedLessonIds *)
CompletionReturns ==
    \E q \in BagToSet(inflight) :
        /\ q.phase = "done"
        /\ completedLessonIds' =
                IF q.err = NoError
                THEN [completedLessonIds EXCEPT ![q.student_id] = Append(@, q.lesson_id)]
                ELSE completedLessonIds
        /\ inflight' = inflight (-) SetToBag({q})
        /\ UNCHANGED <<dbvars, rpc, clientvars, nextRowId>>

(* fetchProgress, on mount of the player *)
fetchProgress ==
    /\ \E sid \in Students :
        /\ \E s \in Perms({p.lesson_id : p \in {x \in progress :
                                /\ ProgressPolicy(sid, x)
                                /\ x.student_id = sid
                                /\ x.is_completed = TRUE}}) :
                completedLessonIds' = [completedLessonIds EXCEPT ![sid] = s]
    /\ UNCHANGED <<dbvars, rpc, clientvars, inflight, nextRowId>>

(* a published course of two modules with a lesson each *)
PublishedTree ==
    Payload("c1", Some("u1"),
            [title |-> "b", ms |-> <<"m1", "m2">>, la |-> <<(<<"l1">>), <<"l2">>>>,
             f |-> [l \in LessonIds |-> Some(VideoFile)]])

(* the players of the students of a course that has been saved *)
InitProgress ==
    /\ LET r == save_course_with_children(
                    EmptyDB,
                    "u1", PublishedTree)
       IN courses = r.db.courses /\ modules = r.db.modules /\ lessons = r.db.lessons
          /\ progress = r.db.progress /\ enrollments = r.db.enrollments
    /\ rpc = NoCall
    /\ editorCourse = NoCourse /\ teacherCourses = {} /\ studentCourses = {}
    /\ NoUploads
    /\ SignedInAt("DASHBOARD", NULL)
    /\ completedLessonIds = [s \in Students |-> <<>>] /\ inflight = EmptyBag /\ nextRowId = 1

NextProgress == handleLessonComplete \/ ProgressUpsert \/ CompletionReturns \/ fetchProgress

SpecProgress == InitProgress /\ [][NextProgress]_vars

----------------------------------------------------------------------------
(* Statements on the courses table under row level security, and the remote *)
(* procedure beside them                                                    *)

PrimaryKeyViolation == "duplicate key value violates unique constraint courses_pkey"

CourseRows == [id : CourseIds, teacher_id : Users, title : Titles, is_published : BOOLEAN]

(* a delete that leaves the rows that reference the course *)
DeleteCourses_NoCascade(db, gone) ==
    DeleteModules([db EXCEPT !.courses = db.courses \ gone], {})

(* ON DELETE CASCADE from courses to modules and to enrollments *)
DeleteCourses(db, gone) ==
    DeleteModules([db EXCEPT !.courses = db.courses \ gone,
                             !.enrollments = {e \in db.enrollments :
                                    e.course_id \notin {c.id : c \in gone}}],
                  {m \in db.modules : m.course_id \in {c.id : c \in gone}})

(* select * from courses *)
SelectCourses ==
    /\ \E uid \in Users :
        rpc' = [NoCall EXCEPT !.op = "select", !.caller = uid,
                              !.data = {c \in courses : CourseSelectPolicy(uid, c)}]
    /\ UNCHANGED <<dbvars, clientvars, playervars>>

(* insert into courses *)
InsertCourseBy(uid, row) ==
    /\  LET e == IF ~CourseInsertPolicy(uid, row) THEN RlsViolation
                 ELSE IF \E c \in courses : c.id = row.id THEN PrimaryKeyViolation
                 ELSE NoError
        IN /\ courses' = IF e = NoError THEN courses \cup {row} ELSE courses
           /\ rpc' = [NoCall EXCEPT !.op = "insert", !.caller = uid,
                                    !.ok = (e = NoError), !.err = e]
    /\ UNCHANGED <<modules, lessons, progress, enrollments, clientvars, playervars>>

InsertCourse == \E uid \in Users : \E row \in CourseRows : InsertCourseBy(uid, row)

(* update courses set ... where id = ...: USING selects the rows, and with  *)
(* no WITH CHECK clause the new rows are checked against USING as well      *)
UpdateCourseBy(uid, row) ==
    /\  LET old == {c \in courses : c.id = row.id /\ CourseUpdatePolicy(uid, c)}
            e == IF old # {} /\ ~CourseUpdatePolicy(uid, row) THEN RlsViolation ELSE NoError
        IN /\ courses' = IF e = NoError /\ old # {} THEN (courses \ old) \cup {row} ELSE courses
           /\ rpc' = [NoCall EXCEPT !.op = "update", !.caller = uid,
                                    !.ok = (e = NoError), !.err = e]
    /\ UNCHANGED <<modules, lessons, progress, enrollments, clientvars, playervars>>

UpdateCourse == \E uid \in Users : \E row \in CourseRows : UpdateCourseBy(uid, row)

(* handleDeleteCourse: .from('courses').delete().eq('id', courseId) *)
handleDeleteCourse ==
    /\ \E uid \in Users : \E cid \in CourseIds :
        LET old == {c \in courses : c.id = cid /\ CourseDeletePolicy(uid, c)}
            db == DeleteCourses(DB, old)
        IN /\ courses' = db.courses
           /\ modules' = db.modules
           /\ lessons' = db.lessons
           /\ progress' = db.progress
           /\ enrollments' = db.enrollments
           /\ rpc' = [NoCall EXCEPT !.op = "delete", !.caller = uid, !.data = cid]
    /\ UNCHANGED <<clientvars, playervars>>

(* the trees of the calls beside the statements: no module, or one *)
RowTrees(uid) == {Payload(cid, Some(uid), b) : cid \in CourseIds, b \in ForgedBodies}

SaveRow == \E uid \in Users : \E T \in RowTrees(uid) : SaveCourseRpc(uid, T)

NextRLS == SelectCourses \/ InsertCourse \/ UpdateCourse \/ handleDeleteCourse \/ SaveRow

SpecRLS == Init /\ [][NextRLS]_vars

----------------------------------------------------------------------------
(* Statements on the enrollments and progress tables under row level       *)
(* security, by the students and by the teacher who owns the course         *)

Callers == Students \cup {"u1"}

(* "Students can view their own enrollments." *)
EnrollmentSelectPolicy(uid, e) == e.student_id = uid

(* a WITH CHECK that lets any row in *)
EnrollmentInsertPolicy_Any(uid, e) == TRUE

(* "Students can enroll themselves." *)
EnrollmentInsertPolicy(uid, e) == e.student_id = uid

(* enrollments has no policy FOR UPDATE or FOR DELETE: no row qualifies *)
EnrollmentWritePolicy(uid, e) == FALSE

SelectEnrollments ==
    /\ \E uid \in Callers :
        rpc' = [NoCall EXCEPT !.op = "selectEnrollments", !.caller = uid,
                              !.data = {e \in enrollments : EnrollmentSelectPolicy(uid, e)}]
    /\ UNCHANGED <<dbvars, clientvars, playervars>>

(* handleEnroll's insert, and the same statement naming any student *)
InsertEnrollment ==
    /\ nextRowId <= MaxRowId
    /\ \E uid \in Callers : \E sid \in Students : \E cid \in CourseIds :
        LET row == [id |-> nextRowId, student_id |-> sid, course_id |-> cid]
            e == IF ~EnrollmentInsertPolicy(uid, row) THEN RlsViolation
                 ELSE IF \A c \in courses : c.id # cid THEN ForeignKeyViolation
                 ELSE IF \E x \in enrollments : x.student_id = sid /\ x.course_id = cid
                      THEN UniqueViolation
                 ELSE NoError
        IN /\ enrollments' = IF e = NoError THEN enrollments \cup {row} ELSE enrollments
           /\ nextRowId' = IF e = NoError THEN nextRowId + 1 ELSE nextRowId
           /\ rpc' = [NoCall EXCEPT !.op = "insertEnrollment", !.caller = uid,
                                    !.ok = (e = NoError), !.err = e]
    /\ UNCHANGED <<courses, modules, lessons, progress, clientvars, completedLessonIds, inflight>>

(* update enrollments set course_id = ... where id = ... *)
UpdateEnrollment ==
    /\ \E uid \in Callers : \E x \in enrollments : \E cid \in CourseIds :
        LET old == {e \in {x} : EnrollmentWritePolicy(uid, e)}
        IN /\ enrollments' = (enrollments \ old) \cup {[e EXCEPT !.course_id = cid] : e \in old}
           /\ rpc' = [NoCall EXCEPT !.op = "updateEnrollment", !.caller = uid]
    /\ UNCHANGED <<courses, modules, lessons, progress, clientvars, playervars>>

(* delete from enrollments where id = ... *)
DeleteEnrollment ==
    /\ \E uid \in Callers : \E x \in enrollments :
        LET old == {e \in {x} : EnrollmentWritePolicy(uid, e)}
        IN /\ enrollments' = enrollments \ old
           /\ rpc' = [NoCall EXCEPT !.op = "deleteEnrollment", !.caller = uid]
    /\ UNCHANGED <<courses, modules, lessons, progress, clientvars, playervars>>

SelectProgress ==
    /\ \E uid \in Callers :
        rpc' = [NoCall EXCEPT !.op = "selectProgress", !.caller = uid,
                              !.data = {p \in progress : ProgressPolicy(uid, p)}]
    /\ UNCHANGED <<dbvars, clientvars, playervars>>

(* insert into progress: FOR ALL gives the row check student_id = auth.uid() *)
InsertProgress ==
    /\ nextRowId <= MaxRowId
    /\ \E uid \in Callers : \E sid \in Students : \E l \in lessons : \E done \in BOOLEAN :
        LET row == [id |-> nextRowId, student_id |-> sid, lesson_id |-> l.id,
                    is_completed |-> done]
            e == IF ~ProgressPolicy(uid, row) THEN RlsViolation
                 ELSE IF \E x \in progress : x.student_id = sid /\ x.lesson_id = l.id
                      THEN UniqueViolation
                 ELSE NoError
        IN /\ progress' = IF e = NoError THEN progress \cup {row} ELSE progress
           /\ nextRowId' = IF e = NoError THEN nextRowId + 1 ELSE nextRowId
           /\ rpc' = [NoCall EXCEPT !.op = "insertProgress", !.caller = uid,
                                    !.ok = (e = NoError), !.err = e]
    /\ UNCHANGED <<courses, modules, lessons, enrollments, clientvars, completedLessonIds, inflight>>

(* update progress set student_id = ..., is_completed = ... where id = ...: *)
(* USING selects the rows and checks the new rows                           *)
UpdateProgress ==
    /\ \E uid \in Callers : \E x \in progress : \E sid \in Students : \E done \in BOOLEAN :
        LET old == {p \in {x} : ProgressPolicy(uid, p)}
            new == {[p EXCEPT !.student_id = sid, !.is_completed = done] : p \in old}
            e == IF \E p \in new : ~ProgressPolicy(uid, p) THEN RlsViolation
                 ELSE IF \E p \in new : \E y \in progress \ old :
                            y.student_id = p.student_id /\ y.lesson_id = p.lesson_id
                      THEN UniqueViolation
                 ELSE NoError
        IN /\ progress' = IF e = NoError THEN (progress \ old) \cup new ELSE progress
           /\ rpc' = [NoCall EXCEPT !.op = "updateProgress", !.caller = uid,
                                    !.ok = (e = NoError), !.err = e]
    /\ UNCHANGED <<courses, modules, lessons, enrollments, clientvars, playervars>>

(* delete from progress where id = ... *)
DeleteProgress ==
    /\ \E uid \in Callers : \E x \in progress :
        LET old == {p \in {x} : ProgressPolicy(uid, p)}
        IN /\ progress' = progress \ old
           /\ rpc' = [NoCall EXCEPT !.op = "deleteProgress", !.caller = uid]
    /\ UNCHANGED <<courses, modules, lessons, enrollments, clientvars, playervars>>

NextStudentRows ==
    \/ SelectEnrollments \/ InsertEnrollment \/ UpdateEnrollment \/ DeleteEnrollment
    \/ SelectProgress \/ InsertProgress \/ UpdateProgress \/ DeleteProgress

SpecStudentRows == InitProgress /\ [][NextStudentRows]_vars

----------------------------------------------------------------------------
(* Two courses with their rows, the students' enrollments and progress, and *)
(* the teachers' deletes                                                    *)

OneLessonTree(cid, uid, mid, lid) ==
    Payload(cid, Some(uid),
            [title |-> "b", ms |-> <<mid>>, la |-> <<(<<lid>>), <<>>>>,
             f |-> [l \in LessonIds |-> IF l = lid THEN Some(VideoFile) ELSE NULL]])

InitCascade ==
    /\ LET r1 == save_course_with_children(EmptyDB, "u1", OneLessonTree("c1", "u1", "m1", "l1"))
           r2 == save_course_with_children(r1.db, "u2", OneLessonTree("c2", "u2", "m2", "l2"))
       IN courses = r2.db.courses /\ modules = r2.db.modules /\ lessons = r2.db.lessons
          /\ progress = r2.db.progress /\ enrollments = r2.db.enrollments
    /\ rpc = NoCall
    /\ editorCourse = NoCourse /\ teacherCourses = {} /\ studentCourses = {}
    /\ NoUploads
    /\ SignedInAt("DASHBOARD", NULL)
    /\ completedLessonIds = [s \in Students |-> <<>>] /\ inflight = EmptyBag /\ nextRowId = 1

NextCascade == InsertEnrollment \/ InsertProgress \/ handleDeleteCourse

SpecCascade == InitCascade /\ [][NextCascade]_vars

----------------------------------------------------------------------------
(* Profiles and their role: handle_new_user stores the role chosen at       *)
(* sign-up, 'student' when none was given                                   *)

Coordinators == {"k1"}

Profiles == Users \cup Students \cup Coordinators

Role(uid) ==
    IF uid \in Users THEN "teacher"
    ELSE IF uid \in Coordinators THEN "coordinator"
    ELSE "student"

(* the course rows a profile may name itself the teacher of *)
ProfileRows(uid) == [id : CourseIds, teacher_id : {uid}, title : Titles, is_published : {FALSE}]

(* insert into courses, by a profile of any role *)
InsertCourseAs == \E uid \in Profiles : \E row \in ProfileRows(uid) : InsertCourseBy(uid, row)

(* update courses, by a profile of any role *)
UpdateCourseAs == \E uid \in Profiles : \E row \in ProfileRows(uid) : UpdateCourseBy(uid, row)

(* the remote procedure, called by a profile of any role with itself as teacher_id *)
SaveCourseAs ==
    \E uid \in Profiles : \E cid \in CourseIds : \E b \in ForgedBodies :
        SaveCourseRpc(uid, Payload(cid, Some(uid), b))

NextRoles == InsertCourseAs \/ UpdateCourseAs \/ SaveCourseAs

SpecRoles == Init /\ [][NextRoles]_vars

----------------------------------------------------------------------------
(* CourseEditor: the upload of a lesson file.  handleFileChange runs in     *)
(* steps, one per await; uploadStatus "idle" stands for a lesson with no    *)
(* entry in the status map, and NULL for one with no entry in the progress  *)
(* map.                                                                     *)

LocalFiles ==
    {[name |-> "v.mp4", type |-> "video/mp4", size |-> 7],
     [name |-> "d.pdf", type |-> "application/pdf", size |-> 3],
     [name |-> "w.webm", type |-> "video/webm", size |-> 5],
     [name |-> "i.png", type |-> "image/png", size |-> 2]}

UnsupportedError == "Tipo de archivo no soportado. Sube un video MP4 o un PDF."
UploadError == "Error al subir el archivo"

(* a check that lets every video through *)
AcceptedType_AnyVideo(type) == StartsWithVideo(type) \/ type = "application/pdf"

(* file.type !== 'video/mp4' && file.type !== 'application/pdf' *)
AcceptedType(type) == type = "video/mp4" \/ type = "application/pdf"

(* the lessons of the editor's course, each with the module that holds it *)
EditorLessons ==
    IF editorCourse = NoCourse THEN {}
    ELSE {[module |-> m.id, lesson |-> l] : m \in Range(editorCourse.modules), l \in LessonIds} \cap
         UNION {{[module |-> m.id, lesson |-> x.id] : x \in Range(m.lessons)} :
                    m \in Range(editorCourse.modules)}

LessonContent(lid) ==
    UNION {{x.content : x \in {y \in Range(m.lessons) : y.id = lid}} :
                m \in Range(editorCourse.modules)}

(* the render branch that shows the UploadProgress bar of a lesson *)
ProgressShown(lid) ==
    /\ \E e \in EditorLessons : e.lesson = lid
    /\ LessonContent(lid) = {NULL}
    /\ uploadStatus[lid] # "idle"

(* progress={uploadProgress[lesson.id] || 0} *)
DisplayedProgress(lid) ==
    IF uploadProgress[lid] = NULL THEN 0 ELSE Val(uploadProgress[lid])

(* the render branch that shows the file input of a lesson *)
FileInputShown(lid) ==
    /\ \E e \in EditorLessons : e.lesson = lid
    /\ LessonContent(lid) = {NULL}
    /\ uploadStatus[lid] = "idle"

(* file.name.split('.').pop() *)
FileExt(name) ==
    CASE name = "v.mp4" -> "mp4"
      [] name = "d.pdf" -> "pdf"
      [] name = "w.webm" -> "webm"
      [] name = "i.png" -> "png"

UuidText == <<"1", "2", "3", "4", "5", "6">>

(* `${course.teacher_id}/${course.id}/${moduleId}/${lessonId}/${uuidv4()}.${fileExt}` *)
FilePath(path) ==
    path.teacher \o "/" \o path.course \o "/" \o path.module \o "/" \o path.lesson
        \o "/" \o UuidText[path.uuid] \o "." \o path.ext

(* supabase.storage.from('lesson-files').getPublicUrl(data.path) *)
getPublicUrl(path) == "/storage/v1/object/public/lesson-files/" \o FilePath(path)

UsedUuids ==
    {k.uuid : k \in storage} \cup
    {Val(uploadTask[l]).path.uuid : l \in {x \in LessonIds : uploadTask[x] # NULL}}

(* uuidv4(): a key no object and no upload has *)
FreshUuid == IF UsedUuids = {} THEN 1 ELSE 1 + CHOOSE n \in UsedUuids : \A k \in UsedUuids : k <= n

(* an updater that keeps the file of the target lesson only *)
SetLessonContent_OnlyTarget(prevCourse, moduleId, lessonId, newFile) ==
    [prevCourse EXCEPT !.modules = [i \in DOMAIN prevCourse.modules |->
        [prevCourse.modules[i] EXCEPT !.lessons = [k \in DOMAIN prevCourse.modules[i].lessons |->
            [prevCourse.modules[i].lessons[k] EXCEPT !.content =
                IF prevCourse.modules[i].id = moduleId
                   /\ prevCourse.modules[i].lessons[k].id = lessonId
                THEN Some(newFile) ELSE NULL]]]]]

(* setCourse(prevCourse => ... content: newFile ...) *)
SetLessonContent(prevCourse, moduleId, lessonId, newFile) ==
    [prevCourse EXCEPT !.modules = [i \in DOMAIN prevCourse.modules |->
        IF prevCourse.modules[i].id = moduleId
        THEN [prevCourse.modules[i] EXCEPT !.lessons = [k \in DOMAIN prevCourse.modules[i].lessons |->
                IF prevCourse.modules[i].lessons[k].id = lessonId
                THEN [prevCourse.modules[i].lessons[k] EXCEPT !.content = Some(newFile)]
                ELSE prevCourse.modules[i].lessons[k]]]
        ELSE prevCourse.modules[i]]]

(* handleFileChange up to the first await: the type check, then 'preparing' *)
handleFileChange ==
    /\ FreshUuid <= MaxUploads
    /\ \E e \in EditorLessons : \E file \in LocalFiles :
        /\ FileInputShown(e.lesson)
        /\ IF ~AcceptedType(file.type)
           THEN /\ rpc' = [NoCall EXCEPT !.op = "fileChosen", !.caller = editorCourse.teacher_id,
                                         !.data = [lesson |-> e.lesson, type |-> file.type],
                                         !.ok = FALSE, !.err = UnsupportedError]
                /\ UNCHANGED <<uploadStatus, uploadProgress, uploadTask>>
           ELSE /\ rpc' = [NoCall EXCEPT !.op = "fileChosen", !.caller = editorCourse.teacher_id,
                                         !.data = [lesson |-> e.lesson, type |-> file.type]]
                /\ uploadStatus' = [uploadStatus EXCEPT ![e.lesson] = "preparing"]
                /\ uploadProgress' = [uploadProgress EXCEPT ![e.lesson] = Some(0)]
                /\ uploadTask' = [uploadTask EXCEPT ![e.lesson] =
                        Some([file |-> file, moduleId |-> e.module,
                              path |-> [teacher |-> editorCourse.teacher_id,
                                        course |-> editorCourse.id, module |-> e.module,
                                        lesson |-> e.lesson, uuid |-> FreshUuid,
                                        ext |-> FileExt(file.name)]])]
    /\ UNCHANGED <<dbvars, editorCourse, teacherCourses, studentCourses, storage, playervars, txns, appvars>>

(* after the 800 ms wait: 'uploading', the interval starts, the upload is issued *)
StartUpload ==
    /\ \E l \in LessonIds :
        /\ uploadTask[l] # NULL /\ uploadStatus[l] = "preparing"
        /\ uploadStatus' = [uploadStatus EXCEPT ![l] = "uploading"]
        /\ rpc' = [NoCall EXCEPT !.op = "upload", !.caller = Val(uploadTask[l]).path.teacher,
                                 !.data = [lesson |-> l, type |-> Val(uploadTask[l]).file.type]]
    /\ UNCHANGED <<dbvars, editorCourse, teacherCourses, studentCourses,
                   uploadProgress, uploadTask, storage, playervars, txns, appvars>>

(* the callback of progressInterval *)
ProgressTick ==
    /\ \E l \in LessonIds :
        /\ uploadTask[l] # NULL /\ uploadStatus[l] = "uploading"
        /\ LET current == IF uploadProgress[l] = NULL THEN 0 ELSE Val(uploadProgress[l])
           IN uploadProgress' = IF current >= 90 THEN uploadProgress
                                ELSE [uploadProgress EXCEPT ![l] = Some(current + 10)]
        /\ rpc' = [NoCall EXCEPT !.op = "tick", !.data = [lesson |-> l]]
    /\ UNCHANGED <<dbvars, editorCourse, teacherCourses, studentCourses,
                   uploadStatus, uploadTask, storage, playervars, txns, appvars>>

(* the upload resolves with data: clearInterval, 'completed', 100 *)
UploadSucceeds ==
    /\ \E l \in LessonIds :
        /\ uploadTask[l] # NULL /\ uploadStatus[l] = "uploading"
        /\ storage' = storage \cup {Val(uploadTask[l]).path}
        /\ uploadStatus' = [uploadStatus EXCEPT ![l] = "completed"]
        /\ uploadProgress' = [uploadProgress EXCEPT ![l] = Some(100)]
        /\ rpc' = [NoCall EXCEPT !.op = "uploaded", !.data = [lesson |-> l]]
    /\ UNCHANGED <<dbvars, editorCourse, teacherCourses, studentCourses, uploadTask, playervars, txns, appvars>>

(* the upload resolves with uploadError: clearInterval, 'error', the handler returns *)
UploadFails ==
    /\ \E l \in LessonIds :
        /\ uploadTask[l] # NULL /\ uploadStatus[l] = "uploading"
        /\ uploadStatus' = [uploadStatus EXCEPT ![l] = "error"]
        /\ uploadProgress' = [uploadProgress EXCEPT ![l] = NULL]
        /\ uploadTask' = [uploadTask EXCEPT ![l] = NULL]
        /\ rpc' = [NoCall EXCEPT !.op = "uploadFailed", !.data = [lesson |-> l],
                                 !.ok = FALSE, !.err = UploadError]
    /\ UNCHANGED <<dbvars, editorCourse, teacherCourses, studentCourses, storage, playervars, txns, appvars>>

(* after the 1000 ms wait: the file is attached and the two entries removed *)
AttachFile ==
    /\ \E l \in LessonIds :
        /\ uploadTask[l] # NULL /\ uploadStatus[l] = "completed"
        /\ LET t == Val(uploadTask[l])
               newFile == [name |-> t.file.name, type |-> t.file.type,
                           url |-> getPublicUrl(t.path), size |-> t.file.size]
           IN editorCourse' = SetLessonContent(editorCourse, t.moduleId, l, newFile)
        /\ uploadStatus' = [uploadStatus EXCEPT ![l] = "idle"]
        /\ uploadProgress' = [uploadProgress EXCEPT ![l] = NULL]
        /\ rpc' = [NoCall EXCEPT !.op = "attached",
                                 !.data = [lesson |-> l, task |-> Val(uploadTask[l])]]
        /\ uploadTask' = [uploadTask EXCEPT ![l] = NULL]
    /\ UNCHANGED <<dbvars, teacherCourses, studentCourses, storage, playervars, txns, appvars>>

RemoveError == "Error al eliminar el archivo"

(* the updater of removeFile: content: null on the lesson of the module *)
ClearLessonContent(prevCourse, moduleId, lessonId) ==
    [prevCourse EXCEPT !.modules = [i \in DOMAIN prevCourse.modules |->
        IF prevCourse.modules[i].id = moduleId
        THEN [prevCourse.modules[i] EXCEPT !.lessons = [k \in DOMAIN prevCourse.modules[i].lessons |->
                IF prevCourse.modules[i].lessons[k].id = lessonId
                THEN [prevCourse.modules[i].lessons[k] EXCEPT !.content = NULL]
                ELSE prevCourse.modules[i].lessons[k]]]
        ELSE prevCourse.modules[i]]]

(* removeFile: the path after '/lesson-files/' in the lesson's url is the    *)
(* key of the object whose public url it is; that object is removed from    *)
(* the bucket, then the content is cleared; an error of the bucket stops    *)
(* the handler before the update.                                           *)
removeFile ==
    /\ EditorShown /\ editorCourse # NoCourse
    /\ \E e \in EditorLessons : \E error \in BOOLEAN :
        /\ LessonContent(e.lesson) # {NULL}
        /\ LET url == Val(CHOOSE c \in LessonContent(e.lesson) : TRUE).url
           IN IF error
              THEN /\ rpc' = [NoCall EXCEPT !.op = "removeFile", !.data = [lesson |-> e.lesson],
                                            !.ok = FALSE, !.err = RemoveError]
                   /\ UNCHANGED <<storage, editorCourse>>
              ELSE /\ storage' = {k \in storage : getPublicUrl(k) # url}
                   /\ editorCourse' = ClearLessonContent(editorCourse, e.module, e.lesson)
                   /\ rpc' = [NoCall EXCEPT !.op = "removeFile", !.data = [lesson |-> e.lesson]]
    /\ UNCHANGED <<dbvars, teacherCourses, studentCourses, uploadStatus, uploadProgress,
                   uploadTask, playervars, txns, appvars>>

(* a new course with one module and two lessons without a file *)
EditorDraft ==
    ClientCourse(<<[id |-> "m1", title |-> "a", order |-> 0,
                    lessons |-> <<ClientLesson("l1", 1, NULL), ClientLesson("l2", 2, NULL)>>]>>)

InitUpload ==
    /\ courses = {} /\ modules = {} /\ lessons = {} /\ progress = {} /\ enrollments = {}
    /\ rpc = NoCall
    /\ editorCourse = EditorDraft /\ teacherCourses = {} /\ studentCourses = {}
    /\ NoUploads
    /\ SignedInAt("EDITOR", Selected(EditorDraft))
    /\ completedLessonIds = [s \in Students |-> <<>>] /\ inflight = EmptyBag /\ nextRowId = 1

NextUpload ==
    handleFileChange \/ StartUpload \/ ProgressTick \/ UploadSucceeds \/ UploadFails \/ AttachFile

SpecUpload == InitUpload /\ [][NextUpload]_vars

(* timers fire and the upload's promise settles *)
SpecUploadFair == SpecUpload /\ WF_vars(NextUpload)

----------------------------------------------------------------------------
(* Calls of save_course_with_children that overlap: two sessions of the     *)
(* teacher save the course c1 while students fetch.                         *)

(* the revisions the sessions save: published, the modules in the order of *)
(* their ids, one lesson l1 with a video whenever there is a module         *)
TxnBodies ==
    {b \in Bodies : /\ b.title = "b"
                    /\ b.ms \in {<<>>, <<"m1">>, <<"m2">>, <<"m1", "m2">>}
                    /\ BodyLessons(b) = (IF b.ms = <<>> THEN {} ELSE {"l1"})
                    /\ \A l \in BodyLessons(b) : b.f[l] = Some(VideoFile)}

TxnTrees == {Payload("c1", Some("u1"), b) : b \in TxnBodies}

(* the call arrives: the ownership check *)
BeginSave ==
    /\ \E t \in Sessions : \E T \in TxnTrees :
        /\ txns[t] = NULL
        /\ txns' = [txns EXCEPT ![t] = Some([caller |-> "u1", data |-> T, k |-> 0])]
        /\ rpc' = [NoCall EXCEPT !.op = "begin", !.caller = "u1"]
    /\ UNCHANGED <<dbvars, editorCourse, teacherCourses, studentCourses, uploadvars, playervars,
                   appvars>>

(* the next unit of the function; the course upsert waits for the session  *)
(* that holds the course row                                                *)
SaveStatement ==
    /\ \E t \in Sessions :
        /\ txns[t] # NULL
        /\ Val(txns[t]).k < LastUnit(Val(txns[t]).data)
        /\ Val(txns[t]).k = 0 => Writers = {}
        /\ txns' = [txns EXCEPT ![t] = Some([Val(txns[t]) EXCEPT !.k = @ + 1])]
        /\ rpc' = [NoCall EXCEPT !.op = "statement", !.caller = Val(txns[t]).caller]
    /\ UNCHANGED <<dbvars, editorCourse, teacherCourses, studentCourses, uploadvars, playervars,
                   appvars>>

(* the function returns and the transaction commits *)
CommitSave ==
    /\ \E t \in Sessions :
        /\ txns[t] # NULL
        /\ Val(txns[t]).k = LastUnit(Val(txns[t]).data)
        /\ LET x == Val(txns[t])
               r == Transaction(DB, Working(DB, x.caller, x.data, x.k))
           IN /\ courses' = r.db.courses
              /\ modules' = r.db.modules
              /\ lessons' = r.db.lessons
              /\ progress' = r.db.progress
              /\ enrollments' = r.db.enrollments
              /\ rpc' = [op |-> "save", caller |-> x.caller, data |-> x.data,
                         ok |-> r.ok, err |-> r.err, writes |-> r.writes,
                         gone |-> r.gone, cleared |-> r.cleared]
        /\ txns' = [txns EXCEPT ![t] = NULL]
    /\ UNCHANGED <<editorCourse, teacherCourses, studentCourses, uploadvars, playervars, appvars>>

NextTxn == BeginSave \/ SaveStatement \/ CommitSave \/ StudentFetchData

SpecTxn == Init /\ [][NextTxn]_vars

----------------------------------------------------------------------------
(* save_course_with_children as SETUP_COMPLETO_NUEVO_PROYECTO.sql section   *)
(* 4.3 installs it: no check of the caller, the modules of the course are   *)
(* deleted and the payload's rows inserted by plain INSERTs                 *)

NotNullViolation == "null value in column teacher_id violates not-null constraint"
ModuleKeyViolation == "duplicate key value violates unique constraint modules_pkey"
LessonKeyViolation == "duplicate key value violates unique constraint lessons_pkey"
CheckViolation == "new row violates check constraint lessons_file_type_check"

(* INSERT INTO courses ... ON CONFLICT (id) DO UPDATE SET title, ..., is_published, updated_at *)
SetupUpsertCourse(st, course_data, v_course_id) ==
    IF course_data.teacher_id = NULL THEN Raise(st, NotNullViolation)
    ELSE UpsertCourse(st, course_data, v_course_id, Val(course_data.teacher_id))

(* DELETE FROM modules WHERE course_id = v_course_id *)
SetupDeleteModules(st, v_course_id) ==
    LET gone == {m \in st.db.modules : m.course_id = v_course_id}
    IN IF st.err # NoError THEN st
       ELSE IF gone = {} THEN st
       ELSE [Written(st, DeleteModules(st.db, gone)) EXCEPT
                !.gone = st.gone \cup {m.id : m \in gone}
                             \cup {l.id : l \in {x \in st.db.lessons :
                                        x.module_id \in {m.id : m \in gone}}}]

(* INSERT INTO modules (id, course_id, title, "order") VALUES (...) *)
SetupInsertModule(st, v_module, v_module_id, v_course_id) ==
    IF \E m \in st.db.modules : m.id = v_module_id THEN Raise(st, ModuleKeyViolation)
    ELSE Written(st, [st.db EXCEPT !.modules = st.db.modules \cup
                        {[id |-> v_module_id, course_id |-> v_course_id,
                          title |-> v_module.title, order |-> v_module.order]}])

(* INSERT INTO lessons (...) VALUES (..., v_content->>'name', ...) *)
SetupInsertLesson(st, v_lesson, v_module_id) ==
    LET v_content == v_lesson.content
        row == [id |-> v_lesson.id,
                module_id |-> v_module_id,
                title |-> v_lesson.title,
                order |-> v_lesson.order,
                file_name |-> IF v_content # NULL THEN Some(Val(v_content).name) ELSE NULL,
                file_type |-> IF v_content # NULL THEN Some(Val(v_content).type) ELSE NULL,
                file_url |-> IF v_content # NULL THEN Some(Val(v_content).url) ELSE NULL,
                file_size |-> IF v_content # NULL THEN Some(Val(v_content).size) ELSE NULL]
    IN IF v_content # NULL /\ Val(v_content).type \notin FileTypeEnum
       THEN Raise(st, CheckViolation)
       ELSE IF \E l \in st.db.lessons : l.id = v_lesson.id THEN Raise(st, LessonKeyViolation)
       ELSE Written(st, [st.db EXCEPT !.lessons = st.db.lessons \cup {row}])

RECURSIVE SetupLessonLoop(_, _, _, _)
SetupLessonLoop(st, lessonsJson, i, v_module_id) ==
    IF i > Len(lessonsJson) \/ st.err # NoError THEN st
    ELSE SetupLessonLoop(SetupInsertLesson(st, lessonsJson[i], v_module_id),
                         lessonsJson, i + 1, v_module_id)

RECURSIVE SetupModuleLoop(_, _, _, _)
SetupModuleLoop(st, modulesJson, i, v_course_id) ==
    IF i > Len(modulesJson) \/ st.err # NoError THEN st
    ELSE LET v_module == modulesJson[i]
             v_module_id == v_module.id
             s1 == SetupInsertModule(st, v_module, v_module_id, v_course_id)
             s2 == SetupLessonLoop(s1, v_module.lessons, 1, v_module_id)
         IN SetupModuleLoop(s2, modulesJson, i + 1, v_course_id)

setup_save_course_with_children(db, uid, course_data) ==
    LET v_course_id == course_data.id
        s0 == [db |-> db, err |-> NoError, writes |-> 0, gone |-> {}, cleared |-> {}]
        s1 == SetupUpsertCourse(s0, course_data, v_course_id)
        s2 == SetupDeleteModules(s1, v_course_id)
        s3 == SetupModuleLoop(s2, course_data.modules, 1, v_course_id)
    IN Transaction(db, s3)

(* a call against a project installed from the consolidated script *)
SaveSetupRpc ==
    /\ \E uid \in Users : \E T \in RowTrees(uid) \cup ForgedTrees(uid) :
        LET r == setup_save_course_with_children(DB, uid, T)
        IN /\ courses' = r.db.courses
           /\ modules' = r.db.modules
           /\ lessons' = r.db.lessons
           /\ progress' = r.db.progress
           /\ enrollments' = r.db.enrollments
           /\ rpc' = [op |-> "saveSetup", caller |-> uid, data |-> T,
                      ok |-> r.ok, err |-> r.err, writes |-> r.writes,
                      gone |-> r.gone, cleared |-> r.cleared]
    /\ UNCHANGED <<clientvars, playervars>>

(* the states either installation reaches, and the calls made in them *)
NextSetup == SaveRow \/ SaveForged \/ SaveSetupRpc

SpecSetup == Init /\ [][NextSetup]_vars

----------------------------------------------------------------------------
(* CourseEditor: modules and lessons added to a new course and reordered by *)
(* drag and drop.  uuidv4() gives an identifier that is not in the tree:    *)
(* the first of a list of identifiers that the tree does not hold.          *)

MaxEditorModules == 2
MaxEditorLessons == 3

ModuleUuids == <<"m1", "m2", "m3">>
LessonUuids == <<"l1", "l2", "l3", "l4">>

AllLessons(course) == UNION {Range(m.lessons) : m \in Range(course.modules)}

(* uuidv4(): the first identifier of the list uuids that is not in used *)
Uuidv4(uuids, used) ==
    uuids[CHOOSE i \in DOMAIN uuids :
            /\ uuids[i] \notin used
            /\ \A j \in 1..(i - 1) : uuids[j] \in used]

(* `Nuevo Módulo ${course.modules.length + 1}` *)
NewModuleTitle(n) == <<"Nuevo Modulo 1", "Nuevo Modulo 2", "Nuevo Modulo 3", "Nuevo Modulo 4">>[n]

(* handleAddModule *)
handleAddModule ==
    /\ editorCourse # NoCourse
    /\ Len(editorCourse.modules) < MaxEditorModules
    /\ LET id == Uuidv4(ModuleUuids, {m.id : m \in Range(editorCourse.modules)})
           newModule == [id |-> id, title |-> NewModuleTitle(Len(editorCourse.modules) + 1),
                         lessons |-> <<>>, order |-> Len(editorCourse.modules)]
       IN editorCourse' = [editorCourse EXCEPT !.modules = Append(@, newModule)]
    /\ rpc' = [NoCall EXCEPT !.op = "addModule"]
    /\ UNCHANGED <<dbvars, teacherCourses, studentCourses, uploadvars, playervars, txns, appvars>>

(* handleAddLesson *)
handleAddLesson ==
    /\ editorCourse # NoCourse
    /\ Cardinality(AllLessons(editorCourse)) < MaxEditorLessons
    /\ Cardinality(AllLessons(editorCourse)) + Cardinality({l \in LessonIds : uploadTask[l] # NULL})
            < Len(LessonUuids)
    /\ \E i \in DOMAIN editorCourse.modules :
        LET module == editorCourse.modules[i]
            id == Uuidv4(LessonUuids, {l.id : l \in AllLessons(editorCourse)}
                                      \cup {l \in LessonIds : uploadTask[l] # NULL})
            newLesson == [id |-> id, title |-> "a", content |-> NULL,
                          order |-> Len(module.lessons)]
        IN editorCourse' = [editorCourse EXCEPT !.modules =
                [k \in DOMAIN @ |-> IF @[k].id = module.id
                                    THEN [@[k] EXCEPT !.lessons = Append(@, newLesson)]
                                    ELSE @[k]]]
    /\ rpc' = [NoCall EXCEPT !.op = "addLesson"]
    /\ UNCHANGED <<dbvars, teacherCourses, studentCourses, uploadvars, playervars, txns, appvars>>

(* handleDeleteModule *)
handleDeleteModule ==
    /\ editorCourse # NoCourse
    /\ \E moduleId \in {m.id : m \in Range(editorCourse.modules)} :
        editorCourse' = [editorCourse EXCEPT !.modules =
                            SelectSeq(@, LAMBDA m : m.id # moduleId)]
    /\ rpc' = [NoCall EXCEPT !.op = "deleteModule"]
    /\ UNCHANGED <<dbvars, teacherCourses, studentCourses, uploadvars, playervars, txns, appvars>>

(* handleDeleteLesson *)
handleDeleteLesson ==
    /\ editorCourse # NoCourse
    /\ \E i \in DOMAIN editorCourse.modules :
       \E lessonId \in {l.id : l \in Range(editorCourse.modules[i].lessons)} :
        LET moduleId == editorCourse.modules[i].id
        IN editorCourse' = [editorCourse EXCEPT !.modules =
                [k \in DOMAIN @ |-> IF @[k].id = moduleId
                                    THEN [@[k] EXCEPT !.lessons =
                                            SelectSeq(@, LAMBDA l : l.id # lessonId)]
                                    ELSE @[k]]]
    /\ rpc' = [NoCall EXCEPT !.op = "deleteLesson"]
    /\ UNCHANGED <<dbvars, teacherCourses, studentCourses, uploadvars, playervars, txns, appvars>>

(* items.splice(index, 1), index counted from 0 *)
SpliceOut(items, index) ==
    SubSeq(items, 1, index) \o SubSeq(items, index + 2, Len(items))

(* items.splice(index, 0, item), index counted from 0 *)
SpliceIn(items, index, item) ==
    IF index >= Len(items) THEN Append(items, item)
    ELSE SubSeq(items, 1, index) \o <<item>> \o SubSeq(items, index + 1, Len(items))

(* a map that copies the items as they are *)
Renumber_Stale(items) == items

(* items.map((x, index) => ({ ...x, order: index })) *)
Renumber(items) == [i \in DOMAIN items |-> [items[i] EXCEPT !.order = i - 1]]

(* the two splices of onDragEnd *)
Reordered(list, source, destination) ==
    LET reorderedItem == list[source.index + 1]
    IN SpliceIn(SpliceOut(list, source.index), destination.index, reorderedItem)

(* the results the drag-and-drop context reports: a draggable of a list,    *)
(* dropped on a position of the same list or outside of every list          *)
DropResults ==
    LET lists == {[type |-> "MODULES", moduleId |-> NULL, n |-> Len(editorCourse.modules)]}
                 \cup {[type |-> "LESSONS_", moduleId |-> Some(m.id), n |-> Len(m.lessons)] :
                            m \in Range(editorCourse.modules)}
    IN UNION {{[type |-> x.type, moduleId |-> x.moduleId,
                source |-> [index |-> i], destination |-> d] :
                    i \in 0..(x.n - 1),
                    d \in {NULL} \cup {Some([index |-> j]) : j \in 0..(x.n - 1)}} : x \in lists}

(* onDragEnd *)
onDragEnd ==
    /\ editorCourse # NoCourse
    /\ \E result \in DropResults :
        /\ editorCourse' =
            IF result.destination = NULL THEN editorCourse
            ELSE IF result.type = "MODULES"
            THEN LET items == Reordered(editorCourse.modules, result.source,
                                        Val(result.destination))
                     updatedModules == Renumber(items)
                 IN [editorCourse EXCEPT !.modules = updatedModules]
            ELSE LET moduleId == Val(result.moduleId)
                     found == {m \in Range(editorCourse.modules) : m.id = moduleId}
                 IN IF found = {} THEN editorCourse
                    ELSE LET module == CHOOSE m \in found : TRUE
                             items == Reordered(module.lessons, result.source,
                                                Val(result.destination))
                             updatedLessons == Renumber(items)
                             updatedModules ==
                                [k \in DOMAIN editorCourse.modules |->
                                    IF editorCourse.modules[k].id = moduleId
                                    THEN [editorCourse.modules[k] EXCEPT !.lessons = updatedLessons]
                                    ELSE editorCourse.modules[k]]
                         IN [editorCourse EXCEPT !.modules = updatedModules]
        /\ rpc' = [NoCall EXCEPT !.op = "drag", !.data = result]
    /\ UNCHANGED <<dbvars, teacherCourses, studentCourses, uploadvars, playervars, txns, appvars>>

(* handleCreateCourse has opened the editor on a course without modules *)
InitEditor ==
    /\ courses = {} /\ modules = {} /\ lessons = {} /\ progress = {} /\ enrollments = {}
    /\ rpc = NoCall
    /\ editorCourse = ClientCourse(<<>>) /\ teacherCourses = {} /\ studentCourses = {}
    /\ NoUploads
    /\ SignedInAt("EDITOR", Selected(ClientCourse(<<>>)))
    /\ completedLessonIds = [s \in Students |-> <<>>] /\ inflight = EmptyBag /\ nextRowId = 1

NextEditor == handleAddModule \/ handleAddLesson \/ onDragEnd

SpecEditor == InitEditor /\ [][NextEditor]_vars

(* handleUpdateModuleTitle *)
handleUpdateModuleTitle ==
    /\ editorCourse # NoCourse
    /\ \E moduleId \in {m.id : m \in Range(editorCourse.modules)} : \E title \in Titles :
        editorCourse' = [editorCourse EXCEPT !.modules =
                [k \in DOMAIN @ |-> IF @[k].id = moduleId THEN [@[k] EXCEPT !.title = title]
                                    ELSE @[k]]]
    /\ rpc' = [NoCall EXCEPT !.op = "rename"]
    /\ UNCHANGED <<dbvars, teacherCourses, studentCourses, uploadvars, playervars, txns, appvars>>

(* the editing operations that touch the lists: add, delete, reorder *)
NextEditing ==
    \/ handleAddModule \/ handleAddLesson \/ handleDeleteModule \/ handleDeleteLesson
    \/ onDragEnd

SpecEditing == InitEditor /\ [][NextEditing]_vars

(* lesson files uploaded while the teacher goes on editing the draft: a     *)
(* module is added, renamed or deleted, a lesson deleted                    *)
NextUploadEdit ==
    \/ handleFileChange \/ StartUpload \/ UploadSucceeds \/ AttachFile
    \/ handleAddModule \/ handleUpdateModuleTitle \/ handleDeleteLesson \/ handleDeleteModule

SpecUploadEdit == InitUpload /\ [][NextUploadEdit]_vars

----------------------------------------------------------------------------
(* The owner saves revisions of a course in which students are enrolled and *)
(* have progress                                                            *)

SaveRevision == \E T \in TxnTrees : SaveCourseRpc("u1", T)

NextRevision == InsertEnrollment \/ InsertProgress \/ SaveRevision

SpecRevision == InitProgress /\ [][NextRevision]_vars

----------------------------------------------------------------------------
(* What a payload and a fetched course say about modules and lessons: ids,  *)
(* titles, orders and the name, url and size of the content.                *)

StripType(content) ==
    IF content = NULL THEN NULL
    ELSE Some([name |-> Val(content).name, url |-> Val(content).url, size |-> Val(content).size])

LessonView(l) == [id |-> l.id, title |-> l.title, order |-> l.order, content |-> StripType(l.content)]

PayloadView(T) ==
    {[id |-> m.id, title |-> m.title, order |-> m.order,
      lessons |-> {LessonView(l) : l \in Range(m.lessons)}] : m \in Range(T.modules)}

FetchedView(c) ==
    {[id |-> m.id, title |-> m.title, order |-> m.order,
      lessons |-> {LessonView(l) : l \in m.lessons}] : m \in c.modules}

PayloadModuleIds(T) == {m.id : m \in Range(T.modules)}

PayloadLessonIds(T) == UNION {{l.id : l \in Range(m.lessons)} : m \in Range(T.modules)}

SaveSucceeded == rpc.op = "save" /\ rpc.ok

(* C1: after a successful save by T.teacher_id the teacher's fetch returns a *)
(* course with id T.id whose modules and lessons are exactly those of T,     *)
(* with T's titles, orders and content name, url and size.                   *)
C1_RoundTrip ==
    SaveSucceeded =>
        \E c \in TeacherFetch(DB, rpc.caller) :
            c.id = rpc.data.id /\ FetchedView(c) = PayloadView(rpc.data)

C3_OnlyOwnerMutates ==
    [][(rpc'.op = "save" /\ \E c \in courses : c.id = rpc'.data.id /\ c.teacher_id # rpc'.caller)
        => (~rpc'.ok /\ rpc'.err = PermissionError /\ UNCHANGED dbvars)]_vars

(* C4: a call that fails, also after statements that wrote, leaves the rows  *)
(* of courses, modules and lessons exactly as they were before the call.     *)
C4_AllOrNothing ==
    [][(rpc'.op = "save" /\ ~rpc'.ok) => UNCHANGED dbvars]_vars

C4_Witness ==
    /\ rpc.op = "save" /\ ~rpc.ok /\ rpc.err = EnumError
    /\ rpc.writes >= 3
    /\ \E m \in Range(rpc.data.modules) : m.id \notin {x.id : x \in modules}

(* C5: after a successful save(T) no module of the course T.id that T does   *)
(* not list remains, nor any lesson that was under such a module; no lesson  *)
(* that was under a module T lists and is not in that module's list remains  *)
(* under that module, and none remains at all when T lists it nowhere.       *)
C5_DeletionComplete ==
    [][(rpc'.op = "save" /\ rpc'.ok) =>
        LET T == rpc'.data
        IN /\ \A m \in modules :
                (m.course_id = T.id /\ m.id \notin PayloadModuleIds(T)) =>
                    /\ \A x \in modules' : x.id # m.id
                    /\ \A l \in lessons : l.module_id = m.id => \A y \in lessons' : y.id # l.id
                    /\ \A y \in lessons' : y.module_id # m.id
           /\ \A i \in DOMAIN T.modules : \A l \in lessons :
                (l.module_id = T.modules[i].id /\ l.id \notin {x.id : x \in Range(T.modules[i].lessons)}) =>
                    /\ \A y \in lessons' : ~(y.id = l.id /\ y.module_id = l.module_id)
                    /\ l.id \notin PayloadLessonIds(T) => \A y \in lessons' : y.id # l.id]_vars

(* one module kept with an empty list, the other one dropped: the lesson of  *)
(* each is deleted                                                           *)
C5_Witness ==
    /\ SaveSucceeded
    /\ Len(rpc.data.modules) = 1 /\ rpc.data.modules[1].lessons = <<>>
    /\ Cardinality(rpc.gone \cap ModuleIds) = 1
    /\ Cardinality(rpc.gone \cap LessonIds) = 2
    /\ lessons = {}

(* C6: a second save(T) by the same caller right after a successful one      *)
(* leaves the rows as the first one left them.                               *)
C6_Idempotent ==
    SaveSucceeded => save_course_with_children(DB, rpc.caller, rpc.data).db = DB

(* C7: a lesson persisted with content and saved with content null has its   *)
(* four file columns NULL after the save, and the fetched lesson has         *)
(* content = null.                                                           *)
C7_NullContent ==
    [][(rpc'.op = "save" /\ rpc'.ok) =>
        \A l \in lessons : \A m \in Range(rpc'.data.modules) : \A j \in Range(m.lessons) :
            (l.file_url # NULL /\ j.id = l.id /\ j.content = NULL) =>
                \A y \in lessons' : y.id = l.id =>
                    /\ y.file_name = NULL /\ y.file_type = NULL
                    /\ y.file_url = NULL /\ y.file_size = NULL
                    /\ TeacherLesson(y).content = NULL]_vars

C7_Witness ==
    /\ SaveSucceeded
    /\ \E l \in lessons : l.id \in rpc.cleared /\ l.file_url = NULL

(* the translation the two ends agree on *)
KindOf(mime) == IF mime = "video/mp4" THEN "video" ELSE "pdf"

(* C8: a lesson saved with type 'video/mp4' (resp. 'application/pdf') is     *)
(* stored as 'video' (resp. 'pdf'), comes back with the type it was saved    *)
(* with in the teacher's fetch and in the student's fetch, and a save of a   *)
(* course as fetched leaves the stored kind of every lesson as it was.       *)
C8_MediaKindLossless ==
    [][/\ (rpc'.op = "save" /\ rpc'.ok) =>
            /\ \A m \in Range(editorCourse.modules) : \A l \in Range(m.lessons) :
                l.content # NULL =>
                    /\ \A y \in lessons' : y.id = l.id =>
                            y.file_type = Some(KindOf(Val(l.content).type))
                    /\ \A c \in teacherCourses' : \A fm \in c.modules : \A fl \in fm.lessons :
                            fl.id = l.id =>
                                fl.content # NULL /\ Val(fl.content).type = Val(l.content).type
            /\ (\E c \in teacherCourses : editorCourse \in AsLists(c)) =>
                    \A y \in lessons : \A z \in lessons' : y.id = z.id => z.file_type = y.file_type
       /\ rpc'.op = "studentFetch" =>
            \A c \in studentCourses' : \A fm \in c.modules : \A fl \in fm.lessons :
                fl.content # NULL =>
                    \A y \in lessons : y.id = fl.id => y.file_type = Some(KindOf(Val(fl.content).type))
      ]_vars

ProgressRows(sid, lid) == {p \in progress : p.student_id = sid /\ p.lesson_id = lid}

ExactlyOneCompleted(sid, lid) ==
    /\ Cardinality(ProgressRows(sid, lid)) = 1
    /\ \A p \in ProgressRows(sid, lid) : p.is_completed = TRUE

(* C9: completing a lesson is an idempotent upsert keyed by (student,       *)
(* lesson): however many completions of a lesson a student makes, one after *)
(* another or overlapping, none returns an error, and once one has run      *)
(* there is exactly one progress row for the pair, with is_completed true.  *)
C9_CompletionIdempotent ==
    /\ \A q \in BagToSet(inflight) : q.phase = "done" =>
            /\ q.err = NoError
            /\ ExactlyOneCompleted(q.student_id, q.lesson_id)
    /\ \A sid \in Students : \A lid \in Range(completedLessonIds[sid]) :
            ExactlyOneCompleted(sid, lid)
    /\ \A sid \in Students : \A lid \in LessonIds : Cardinality(ProgressRows(sid, lid)) <= 1

(* two completions of one lesson by one student overlapped and both returned *)
C9_Witness ==
    \E sid \in Students : \E i, j \in DOMAIN completedLessonIds[sid] :
        /\ i # j
        /\ completedLessonIds[sid][i] = completedLessonIds[sid][j]
        /\ ExactlyOneCompleted(sid, completedLessonIds[sid][i])

(* C10: a course row is read by its owner whatever its published flag and   *)
(* by anyone else exactly when it is published, and a course row is         *)
(* inserted, updated or deleted only by the identity equal to its           *)
(* teacher_id.                                                              *)
C10_CourseRowAccess ==
    [][/\ rpc'.op = "select" =>
            rpc'.data = {c \in courses : c.teacher_id = rpc'.caller \/ c.is_published = TRUE}
       /\ rpc'.op \in {"insert", "update", "delete", "save"} =>
            /\ \A c \in courses' \ courses : c.teacher_id = rpc'.caller
            /\ \A c \in courses \ courses' : c.teacher_id = rpc'.caller
      ]_vars

(* C11: an enrollment row is read and inserted only by the identity equal   *)
(* to its student_id, a progress row is read, inserted, updated and deleted *)
(* only by the identity equal to its student_id; no statement of another    *)
(* identity, the owner of the course included, returns or changes such a    *)
(* row.                                                                     *)
C11_StudentRowsPrivate ==
    [][/\ rpc'.op = "selectEnrollments" =>
            rpc'.data = {e \in enrollments : e.student_id = rpc'.caller}
       /\ rpc'.op = "selectProgress" =>
            rpc'.data = {p \in progress : p.student_id = rpc'.caller}
       /\ rpc'.op \in {"insertEnrollment", "updateEnrollment", "deleteEnrollment",
                       "insertProgress", "updateProgress", "deleteProgress"} =>
            /\ \A e \in enrollments' \ enrollments : e.student_id = rpc'.caller
            /\ enrollments \subseteq enrollments'
            /\ \A p \in progress' \ progress : p.student_id = rpc'.caller
            /\ \A p \in progress \ progress' : p.student_id = rpc'.caller
      ]_vars

(* the owner of the course was refused a progress row for a student who has *)
(* rows of both tables                                                      *)
C11_Witness ==
    /\ rpc.op = "insertProgress" /\ rpc.caller = "u1" /\ ~rpc.ok /\ rpc.err = RlsViolation
    /\ \E e \in enrollments : \E p \in progress : e.student_id = p.student_id
    /\ \E c \in courses : c.teacher_id = "u1"

(* C12: only a profile whose role is 'teacher' creates or edits courses: no *)
(* insert into courses, update of courses or call of the remote procedure   *)
(* by a profile of role 'student' or 'coordinator' adds or changes a course *)
(* row.                                                                     *)
C12_TeachersOnly ==
    [][(/\ rpc'.op \in {"insert", "update", "save"}
        /\ rpc'.caller \in Students \cup Coordinators) => courses' = courses]_vars

(* C13: a file whose media kind is neither 'video/mp4' nor                  *)
(* 'application/pdf' is rejected before any transfer: no upload is started  *)
(* for it, nothing is stored, the upload status of the lesson stays idle    *)
(* and the course tree is unchanged.                                        *)
C13_UnsupportedRejected ==
    [][(/\ rpc'.op = "fileChosen"
        /\ rpc'.data.type \notin {"video/mp4", "application/pdf"}) =>
            /\ uploadStatus'[rpc'.data.lesson] = "idle"
            /\ uploadStatus' = uploadStatus
            /\ uploadTask' = uploadTask
            /\ uploadProgress' = uploadProgress
            /\ storage' = storage
            /\ editorCourse' = editorCourse]_vars

(* a webm video was refused for one lesson while the other lesson uploads *)
C13_Witness ==
    /\ rpc.op = "fileChosen" /\ ~rpc.ok /\ rpc.data.type = "video/webm"
    /\ uploadStatus[rpc.data.lesson] = "idle"
    /\ \E l \in LessonIds : uploadStatus[l] = "uploading"

(* C14: after an upload for a lesson ended in the error status, the editor  *)
(* again reaches a state in which a new upload can be started for that      *)
(* lesson.                                                                  *)
C14_RetryAfterError ==
    \A l \in LessonIds : (uploadStatus[l] = "error") ~> FileInputShown(l)

(* the tree a student gets from the tables db *)
TreeSeen(db, sid) == StudentFetch(db, sid)

PayloadCourseRow(T) ==
    [id |-> T.id, teacher_id |-> Val(T.teacher_id), title |-> T.title,
     is_published |-> T.is_published]

PayloadModuleRows(T) ==
    {[id |-> m.id, course_id |-> T.id, title |-> m.title, order |-> m.order] :
        m \in Range(T.modules)}

PayloadLessonRows(T) ==
    UNION {{[id |-> l.id, module_id |-> m.id, title |-> l.title, order |-> l.order,
             file_name |-> IF l.content = NULL THEN NULL ELSE Some(Val(l.content).name),
             file_type |-> IF l.content = NULL THEN NULL ELSE Some(Val(l.content).type),
             file_url |-> IF l.content = NULL THEN NULL ELSE Some(Val(l.content).url),
             file_size |-> IF l.content = NULL THEN NULL ELSE Some(Val(l.content).size)] :
                l \in Range(m.lessons)} : m \in Range(T.modules)}

(* C16: last write wins at the granularity of the tree: when a save of a    *)
(* course by its owner finishes, whether or not another save of the course  *)
(* overlapped it, the persisted tree of the course is the input of that     *)
(* save: its course row, exactly its modules and exactly its lessons.       *)
C16_LastWriteWins ==
    [][(rpc'.op = "save" /\ rpc'.ok) =>
        LET T == rpc'.data
            ms == {m \in modules' : m.course_id = T.id}
        IN /\ {c \in courses' : c.id = T.id} = {PayloadCourseRow(T)}
           /\ ms = PayloadModuleRows(T)
           /\ {l \in lessons' : l.module_id \in {m.id : m \in ms}} = PayloadLessonRows(T)
      ]_vars

(* C17: the owner of a course never changes: whoever calls the save, with   *)
(* whatever payload, every persisted course row keeps the teacher_id it was *)
(* inserted with.                                                           *)
C17_OwnerImmutable ==
    [][\A c \in courses : \E d \in courses' : d.id = c.id /\ d.teacher_id = c.teacher_id]_vars

(* a teacher's save of a course that another teacher owns went through and  *)
(* rewrote the row, which still names its first owner                       *)
C17_Witness ==
    /\ rpc.op = "save" /\ rpc.ok
    /\ \E c \in courses :
        /\ c.id = rpc.data.id
        /\ c.teacher_id # rpc.caller
        /\ rpc.data.teacher_id = Some(rpc.caller)
        /\ c.title = rpc.data.title

(* C18: when the owner deletes a course, the course row goes and with it    *)
(* every module of the course, every lesson of those modules, every         *)
(* enrollment in the course and every progress row on those lessons; all    *)
(* rows of the other courses stay as they were.  A delete by somebody who   *)
(* is not the owner removes nothing.                                        *)
C18_DeleteCascades ==
    [][rpc'.op = "delete" =>
        LET C == rpc'.data
            owned == \E c \in courses : c.id = C /\ c.teacher_id = rpc'.caller
            ms == {m.id : m \in {x \in modules : x.course_id = C}}
            ls == {l.id : l \in {x \in lessons : x.module_id \in ms}}
        IN IF owned
           THEN /\ courses' = {c \in courses : c.id # C}
                /\ modules' = {m \in modules : m.course_id # C}
                /\ lessons' = {l \in lessons : l.module_id \notin ms}
                /\ enrollments' = {e \in enrollments : e.course_id # C}
                /\ progress' = {p \in progress : p.lesson_id \notin ls}
           ELSE UNCHANGED dbvars
      ]_vars

(* a course that had an enrollment and a progress row was deleted by its    *)
(* owner: the rows inserted outnumber the rows left, and the other course   *)
(* still has its module, its lesson, an enrollment and a progress row       *)
C18_Witness ==
    /\ rpc.op = "delete"
    /\ \A c \in courses : c.id # rpc.data
    /\ \E c \in courses : \E m \in modules : \E l \in lessons :
         \E e \in enrollments : \E p \in progress :
            /\ m.course_id = c.id /\ l.module_id = m.id
            /\ e.course_id = c.id /\ p.lesson_id = l.id
    /\ Cardinality(enrollments) + Cardinality(progress) < nextRowId - 1

(* C19: the function of the consolidated script and the function of the     *)
(* last migration are equivalent: called by the same caller with the same   *)
(* payload in the same persisted state, both succeed or both fail, and both *)
(* leave the same courses, modules, lessons and progress rows.              *)
C19_SetupEquivalent ==
    [][rpc'.op \in {"save", "saveSetup"} =>
        LET a == save_course_with_children(DB, rpc'.caller, rpc'.data)
            b == setup_save_course_with_children(DB, rpc'.caller, rpc'.data)
        IN /\ a.ok = b.ok
           /\ a.db.courses = b.db.courses
           /\ a.db.modules = b.db.modules
           /\ a.db.lessons = b.db.lessons
           /\ a.db.progress = b.db.progress
      ]_vars

(* an item of a list without its order field *)
Unordered(item) == [f \in DOMAIN item \ {"order"} |-> item[f]]

(* after is before with the item at position src (from 0) now at position   *)
(* dst, holding the same items, each with its position as order             *)
IsReorder(before, after, src, dst) ==
    /\ Len(after) = Len(before)
    /\ {Unordered(x) : x \in Range(after)} = {Unordered(x) : x \in Range(before)}
    /\ Unordered(after[dst + 1]) = Unordered(before[src + 1])
    /\ \A i \in DOMAIN after : after[i].order = i - 1

(* C20: a drop on a position of the module list, or of the lesson list of   *)
(* one module, leaves that list with the same items, the dragged item at    *)
(* the destination index and every item's order equal to its position       *)
(* counted from 0; the lesson lists of the other modules, and for a lesson  *)
(* drag the module list itself, are as before; a drop with no destination   *)
(* changes nothing.                                                         *)
C20_DragReorders ==
    [][rpc'.op = "drag" =>
        LET result == rpc'.data
            old == editorCourse.modules
            new == editorCourse'.modules
        IN IF result.destination = NULL THEN editorCourse' = editorCourse
           ELSE IF result.type = "MODULES"
           THEN /\ IsReorder(old, new, result.source.index, Val(result.destination).index)
                /\ editorCourse' = [editorCourse EXCEPT !.modules = new]
           ELSE /\ Len(new) = Len(old)
                /\ \A k \in DOMAIN old :
                    IF old[k].id = Val(result.moduleId)
                    THEN /\ IsReorder(old[k].lessons, new[k].lessons, result.source.index,
                                      Val(result.destination).index)
                         /\ new[k] = [old[k] EXCEPT !.lessons = new[k].lessons]
                    ELSE new[k] = old[k]
                /\ editorCourse' = [editorCourse EXCEPT !.modules = new]
      ]_vars

(* in a course of two modules, a lesson of a module with three lessons was  *)
(* dragged from the first position and dropped on the last                  *)
C20_Witness ==
    /\ rpc.op = "drag"
    /\ rpc.data.type = "LESSONS_"
    /\ rpc.data.source.index = 0
    /\ rpc.data.destination = Some([index |-> 2])
    /\ \E m \in Range(editorCourse.modules) :
        /\ m.id = Val(rpc.data.moduleId)
        /\ Len(m.lessons) = 3
        /\ m.lessons[3].id = "l1"
    /\ Len(editorCourse.modules) = 2

(* C21: in every tree the editor can hold, the order values of the modules  *)
(* are pairwise distinct and so are the order values of the lessons of each *)
(* module.                                                                  *)
C21_UniqueOrders ==
    /\ \A i, j \in DOMAIN editorCourse.modules :
        i # j => editorCourse.modules[i].order # editorCourse.modules[j].order
    /\ \A k \in DOMAIN editorCourse.modules :
        \A i, j \in DOMAIN editorCourse.modules[k].lessons :
            i # j => editorCourse.modules[k].lessons[i].order #
                     editorCourse.modules[k].lessons[j].order

(* C22: while the progress bar of a lesson is on screen, from 'preparing'   *)
(* on, the percentage it shows is between 0 and 100 and never goes down,    *)
(* whether the attempt completes or fails, and it is 100 only when the      *)
(* attempt has completed.                                                   *)
C22_ProgressMonotone ==
    [][\A l \in LessonIds :
        (ProgressShown(l)' =>
            /\ DisplayedProgress(l)' \in 0..100
            /\ (DisplayedProgress(l)' = 100 => uploadStatus'[l] = "completed")
            /\ (ProgressShown(l) => DisplayedProgress(l)' >= DisplayedProgress(l)))
      ]_vars

C24_EditsSurviveFailedSave ==
    [][/\ (rpc'.op = "save" /\ ~rpc'.ok) =>
            /\ app.view = "EDITOR" /\ app' = app
            /\ editorCourse' = editorCourse
            /\ drafts' = drafts
       /\ \A c \in drafts \ drafts' :
            rpc'.op = "save" /\ rpc'.ok /\ rpc'.data.id = c
      ]_vars

(* a save from the editor has failed: the editor is still shown with its    *)
(* modules and the draft of the course is in local storage                  *)
C24_Witness ==
    /\ rpc.op = "save" /\ ~rpc.ok
    /\ EditorShown
    /\ editorCourse # NoCourse
    /\ editorCourse.modules # <<>>
    /\ rpc.data = CoursePayload(editorCourse)
    /\ editorCourse.id \in drafts

(* the ids of the lessons persisted under the modules of a course *)
PersistedLessonIds(cid) ==
    {l.id : l \in {x \in lessons : \E m \in modules : m.id = x.module_id /\ m.course_id = cid}}

(* C25: a save by the owner of the course leaves every enrollment row as it *)
(* is, creates no progress row, and leaves as it is every progress row of a *)
(* lesson that the saved tree lists and that was persisted in the course.   *)
C25_StudentRowsKept ==
    [][(rpc'.op = "save" /\ rpc'.ok) =>
        /\ enrollments' = enrollments
        /\ progress' \subseteq progress
        /\ \A p \in progress :
            (p.lesson_id \in PayloadLessonIds(rpc'.data) \cap PersistedLessonIds(rpc'.data.id))
                => p \in progress'
      ]_vars

(* C26: a save of the tree T, successful or not, leaves as it was every     *)
(* row of another course, every module row of another course and every      *)
(* lesson row under such a module (none is retitled, reordered or deleted), *)
(* also when T lists an id that is persisted under another course.          *)
C26_OtherCoursesUntouched ==
    [][rpc'.op = "save" =>
        LET cid == rpc'.data.id
            others == {m \in modules : m.course_id # cid}
        IN /\ {c \in courses : c.id # cid} \subseteq courses'
           /\ others \subseteq modules'
           /\ {l \in lessons : l.module_id \in {m.id : m \in others}}
                \subseteq lessons'
      ]_vars

(* allLessons of the course the player has open *)
PlayerLessons == PayloadLessonIds(PublishedTree)

(* Math.round((completedLessonIds.length / allLessons.length) * 100) *)
ProgressPercent(sid) ==
    (200 * Len(completedLessonIds[sid]) + Cardinality(PlayerLessons))
        \div (2 * Cardinality(PlayerLessons))

(* C28: the percentage the player shows is between 0 and 100: the completed *)
(* list holds no lesson twice and only lessons of the open course, in every *)
(* state reached by loading progress and by completions, also while a       *)
(* completion write is in flight.                                           *)
C28_PercentInRange ==
    \A sid \in Students :
        /\ ProgressPercent(sid) \in 0..100
        /\ Range(completedLessonIds[sid]) \subseteq PlayerLessons
        /\ \A i, j \in DOMAIN completedLessonIds[sid] :
                i # j => completedLessonIds[sid][i] # completedLessonIds[sid][j]

ImageFiles == {"i.png", "p.jpg"}

ImageExt(name) == IF name = "i.png" THEN "png" ELSE "jpg"

(* `${course.teacher_id}/${course.id}/${uuidv4()}.${fileExt}` *)
ImagePath(course, uuid, name) ==
    course.teacher_id \o "/" \o course.id \o "/" \o UuidText[uuid] \o "." \o ImageExt(name)

(* supabase.storage.from('course-images').getPublicUrl(filePath) *)
ImagePublicUrl(filePath) == "/storage/v1/object/public/course-images/" \o filePath

(* handleImageUpload up to the await: the upload of the chosen file is      *)
(* issued; the handler keeps the course of the render it was called in      *)
handleImageUpload ==
    /\ EditorShown /\ editorCourse # NoCourse
    /\ cover.pending = NULL /\ cover.uploads < MaxImageUploads
    /\ \E name \in ImageFiles :
        cover' = [cover EXCEPT
                    !.pending = Some([course |-> editorCourse,
                                      filePath |-> ImagePath(editorCourse, cover.uploads + 1, name)]),
                    !.uploads = @ + 1]
    /\ rpc' = [NoCall EXCEPT !.op = "imageUpload"]
    /\ UNCHANGED <<dbvars, editorCourse, teacherCourses, studentCourses, uploadvars,
                   playervars, txns, app, navigation, drafts>>

(* the upload resolves with data: setCourse({ ...course, imageUrl: publicUrl }) *)
ImageUploadSucceeds ==
    /\ cover.pending # NULL
    /\ editorCourse' = Val(cover.pending).course
    /\ cover' = [cover EXCEPT !.imageUrl = Some(ImagePublicUrl(Val(cover.pending).filePath)),
                              !.pending = NULL]
    /\ rpc' = [NoCall EXCEPT !.op = "imageUploaded"]
    /\ UNCHANGED <<dbvars, teacherCourses, studentCourses, uploadvars,
                   playervars, txns, app, navigation, drafts>>

(* the upload resolves with uploadError: the catch block shows the toast *)
ImageUploadFails ==
    /\ cover.pending # NULL
    /\ cover' = [cover EXCEPT !.pending = NULL]
    /\ rpc' = [NoCall EXCEPT !.op = "imageUploadFailed", !.ok = FALSE, !.err = UploadError]
    /\ UNCHANGED <<dbvars, editorCourse, teacherCourses, studentCourses, uploadvars,
                   playervars, txns, app, navigation, drafts>>

(* the editor while a cover image uploads *)
NextCover ==
    handleAddModule \/ handleUpdateModuleTitle \/ handleDeleteModule
    \/ handleImageUpload \/ ImageUploadSucceeds \/ ImageUploadFails

SpecCover == InitEditor /\ [][NextCover]_vars

(* C27: the completion of a cover-image upload changes imageUrl only: every *)
(* edit made to the course while the upload was in flight is still present  *)
(* after it.                                                                *)
C27_ImageKeepsEdits ==
    [][rpc'.op = "imageUploaded" => editorCourse' = editorCourse]_vars

(* the stored files of a course over uploads, removals, saves and reopening *)
NextFiles ==
    handleFileChange \/ StartUpload \/ UploadSucceeds \/ AttachFile \/ removeFile
    \/ handleSaveWrapper \/ handleEditCourse

(* a new course with one module and one lesson without a file *)
InitFiles ==
    /\ courses = {} /\ modules = {} /\ lessons = {} /\ progress = {} /\ enrollments = {}
    /\ rpc = NoCall
    /\ editorCourse = ClientCourse(<<[id |-> "m1", title |-> "a", order |-> 0,
                                      lessons |-> <<ClientLesson("l1", 1, NULL)>>]>>)
    /\ teacherCourses = {} /\ studentCourses = {}
    /\ NoUploads
    /\ SignedInAt("EDITOR", Selected(editorCourse))
    /\ completedLessonIds = [s \in Students |-> <<>>] /\ inflight = EmptyBag /\ nextRowId = 1

SpecFiles == InitFiles /\ [][NextFiles]_vars

(* C30: every persisted lesson row with a file_url refers to an object that *)
(* exists in the lesson-files bucket, whatever the editor does (upload,     *)
(* remove file, save, reopen).                                              *)
C30_NoDanglingFile ==
    \A l \in lessons : l.file_url # NULL =>
        \E k \in storage : getPublicUrl(k) = Val(l.file_url)

(* the render branch of the App that shows the teacher's header and pages *)
TeacherShown ==
    /\ ~app.loading
    /\ app.session # NULL /\ app.profile # NULL
    /\ Val(app.profile) \in Users

(* onAuthStateChange with a session: setSession, and fetchProfileAndCourses *)
(* up to its await when there is no profile or it is another user's         *)
SignedIn ==
    /\ app.session = NULL /\ ~app.loading
    /\ \E uid \in Users :
        LET fetch == app.profile = NULL \/ app.profile # Some(uid)
        IN /\ app' = [app EXCEPT !.session = Some(uid), !.loading = fetch]
           /\ rpc' = [NoCall EXCEPT !.op = "signedIn", !.caller = uid]
    /\ UNCHANGED <<dbvars, editorCourse, teacherCourses, studentCourses, uploadvars,
                   playervars, txns, navigation, drafts, cover>>

(* fetchProfileAndCourses after its awaits: setProfile, setCourses, and in  *)
(* the finally block setLoading(false)                                      *)
ProfileFetched ==
    /\ app.session # NULL /\ app.loading
    /\ app' = [app EXCEPT !.profile = app.session, !.loading = FALSE]
    /\ teacherCourses' = TeacherFetch(DB, Val(app.session))
    /\ rpc' = [NoCall EXCEPT !.op = "profile", !.caller = Val(app.session)]
    /\ UNCHANGED <<dbvars, editorCourse, studentCourses, uploadvars,
                   playervars, txns, navigation, drafts, cover>>

(* fetchProfileAndCourses when a query fails: the catch block *)
ProfileFetchFails ==
    /\ app.session # NULL /\ app.loading
    /\ app' = [app EXCEPT !.profile = NULL, !.loading = FALSE]
    /\ teacherCourses' = {}
    /\ rpc' = [NoCall EXCEPT !.op = "profile", !.caller = Val(app.session),
                             !.ok = FALSE, !.err = NetworkError]
    /\ UNCHANGED <<dbvars, editorCourse, studentCourses, uploadvars,
                   playervars, txns, navigation, drafts, cover>>

(* onAuthStateChange without a session: the session has ended *)
SessionLost ==
    /\ app.session # NULL
    /\ app' = [app EXCEPT !.session = NULL, !.profile = NULL, !.loading = FALSE]
    /\ teacherCourses' = {}
    /\ rpc' = [NoCall EXCEPT !.op = "signedOut"]
    /\ UNCHANGED <<dbvars, editorCourse, studentCourses, uploadvars,
                   playervars, txns, navigation, drafts, cover>>

(* handleLogout: the state is reset and the two keys removed; the effect    *)
(* that persists the navigation runs again when the view has changed        *)
handleLogout ==
    /\ TeacherShown
    /\ app' = [app EXCEPT !.session = NULL, !.profile = NULL, !.view = "DASHBOARD"]
    /\ teacherCourses' = {}
    /\ navigation' = IF app.view # "DASHBOARD" THEN Persisted(app')
                     ELSE [app_view |-> NULL, app_selected_course |-> NULL]
    /\ rpc' = [NoCall EXCEPT !.op = "logout"]
    /\ UNCHANGED <<dbvars, editorCourse, studentCourses, uploadvars,
                   playervars, txns, drafts, cover>>

(* handleCreateCourse: a new course of the profile is opened in the editor *)
handleCreateCourse ==
    /\ TeacherShown /\ app.view = "DASHBOARD"
    /\ \E id \in CourseIds :
        LET newCourse == [ClientCourse(<<>>) EXCEPT !.id = id, !.teacher_id = Val(app.profile)]
        IN editorCourse' = newCourse /\ OpenEditor(newCourse)
    /\ rpc' = [NoCall EXCEPT !.op = "create", !.caller = Val(app.profile)]
    /\ UNCHANGED <<dbvars, teacherCourses, studentCourses, uploadvars, playervars, txns>>

(* onBack of the editor: setView('DASHBOARD') *)
onBack ==
    /\ EditorShown
    /\ app' = [app EXCEPT !.view = "DASHBOARD"]
    /\ navigation' = Persisted(app')
    /\ rpc' = [NoCall EXCEPT !.op = "back"]
    /\ UNCHANGED <<dbvars, editorCourse, teacherCourses, studentCourses, uploadvars,
                   playervars, txns, drafts, cover>>

(* the page is loaded again: view and selectedCourse start from the two     *)
(* keys, the effect writes them back, and getSession gives the session the  *)
(* browser holds                                                            *)
Reload ==
    /\ app' = [session |-> app.session, profile |-> NULL, loading |-> app.session # NULL,
               view |-> OrElse(navigation.app_view, "DASHBOARD"),
               selectedCourse |-> navigation.app_selected_course]
    /\ navigation' = Persisted(app')
    /\ teacherCourses' = {}
    /\ rpc' = [NoCall EXCEPT !.op = "reload"]
    /\ UNCHANGED <<dbvars, editorCourse, studentCourses, uploadvars,
                   playervars, txns, drafts, cover>>

NextAuth ==
    SignedIn \/ ProfileFetched \/ ProfileFetchFails \/ SessionLost \/ handleLogout
    \/ handleCreateCourse \/ onBack \/ Reload

SpecAuth == Init /\ [][NextAuth]_vars

(* C29: whenever the editor is shown, the selected course belongs to the    *)
(* signed-in profile, after any sequence of login, logout, session loss,    *)
(* profile fetch failure, reload and login of a different user.             *)
C29_EditorOwner ==
    EditorShown => Val(app.selectedCourse).teacher_id = Val(app.profile)

====
